---- MODULE Spec2Model ----
(***************************************************************************)
(* Model of the outreach pipeline of sahilk873/outlook_outreach:           *)
(*   - the dedup store (manager.py: _normalize_domain,                     *)
(*     _load_emailed_companies, _save_emailed_company),                    *)
(*   - the orchestrator loop OutreachManager.run (manager.py),             *)
(*   - the send-session entry points of outlook/send.py as run uses them,  *)
(*   - the candidate lists (manager.py: _discover_startups,                *)
(*     load_startups_from_list_file) and normalize_email,                  *)
(*   - the command line around run (main.py: main_async, _print_result).   *)
(* Strings are sequences of one-character strings, so that trimming and    *)
(* lowercasing are computed, not assumed.  Optional values are sequences   *)
(* of length at most one: <<>> is None, <<v>> is the value v.              *)
(***************************************************************************)
EXTENDS Integers, Sequences, FiniteSets, TLC

VARIABLES
    pc,              \* position of run: start, loop, for, draft, confirm, open, send, finally, after, returned, raised
    cfg,             \* arguments of the invocation and the manager's fields
    file,            \* content of EMAILED_COMPANIES_PATH (the durable dedup store)
    clock,           \* datetime.now(timezone.utc), as a counter
    emailed,         \* run: mapping loaded at the top of the current iteration
    raw_list,        \* run: candidate list of the current iteration
    batch,           \* run: candidates to process in this iteration
    idx,             \* run: position of the for loop in batch (1-based)
    email,           \* run: resolved email of the current candidate
    sent_so_far,     \* run: number of successful sends
    send_session,    \* run: 0 for None, else the index of the session in sessions
    sessions,        \* every OutlookSendSession opened so far: [open, closeCalls]
    result,          \* self.result (OutreachResult)
    exc,             \* the exception travelling through the finally block, "" for none
    round,           \* number of iterations of the while loop started
    log,             \* trace of the external operations performed so far
    iters,           \* history: to_process and batch of every iteration so far
    loaded,          \* store operations: outcome of the last _load_emailed_companies call
    page,            \* send layer: what each step of a send meets on the page
    snd,             \* send layer: progress and outcome of the send_one_on_session call
    pw,              \* session layer: the automation resources, the snapshot and the call in progress
    fill,            \* compose form: progress of the _fill_and_send call
    report,          \* command line: what main_async has printed of the result
    procs,           \* concurrent pipeline processes recording in the store
    call             \* a single call of a function: its name, argument and value

vars == <<pc, cfg, file, clock, emailed, raw_list, batch, idx, email, sent_so_far,
          send_session, sessions, result, exc, round, log, iters, loaded, page, snd,
          pw, fill, report, procs, call>>

\* the variables outside run and the send layer
apart == <<report, procs, call>>

\* the variables run does not touch
offRun == <<loaded, page, snd, pw, fill, apart>>

-----------------------------------------------------------------------------
(* Bounds of the model.                                                    *)

\* iterations of the while loop of run that the model follows
MaxRounds == 2
\* value of the clock up to which store operations are followed
MaxClock == 3

-----------------------------------------------------------------------------
(* Strings.                                                                *)

None == <<>>
Some(v) == <<v>>

\* str.isspace for the characters of the model
IsSpace(ch) == ch = " "

\* str.lower on one character
LowerChar(ch) ==
    CASE ch = "A" -> "a"
      [] ch = "B" -> "b"
      [] ch = "C" -> "c"
      [] OTHER -> ch

Lower(s) == [i \in 1..Len(s) |-> LowerChar(s[i])]

RECURSIVE LStrip(_)
LStrip(s) == IF s # <<>> /\ IsSpace(Head(s)) THEN LStrip(Tail(s)) ELSE s

RECURSIVE RStrip(_)
RStrip(s) ==
    IF s # <<>> /\ IsSpace(s[Len(s)]) THEN RStrip(SubSeq(s, 1, Len(s) - 1)) ELSE s

\* str.strip
Strip(s) == RStrip(LStrip(s))

\* manager.py _normalize_domain: (domain or "").strip().lower()
_normalize_domain(domain) == Lower(Strip(domain))

\* the characters stripped by normalize_email
IsPunct(ch) == ch \in {".", ",", ";", ":", "\"", "'"}

RECURSIVE RStripPunct(_)
RStripPunct(s) ==
    IF s # <<>> /\ IsPunct(s[Len(s)]) THEN RStripPunct(SubSeq(s, 1, Len(s) - 1)) ELSE s

RECURSIVE LStripPunct(_)
LStripPunct(s) == IF s # <<>> /\ IsPunct(Head(s)) THEN LStripPunct(Tail(s)) ELSE s

\* outlook/email_util.py normalize_email
normalize_email(e) ==
    IF e = <<>> THEN e ELSE Strip(LStripPunct(RStripPunct(Strip(e))))

-----------------------------------------------------------------------------
(* Python lists and dicts.                                                 *)

\* list[:n], with Python's meaning of a negative stop
PySlice(s, n) ==
    IF n >= 0
    THEN SubSeq(s, 1, IF n < Len(s) THEN n ELSE Len(s))
    ELSE SubSeq(s, 1, IF Len(s) + n > 0 THEN Len(s) + n ELSE 0)

\* a dict is the sequence of its entries [k, v] in insertion order
DictKeys(d) == {d[i].k : i \in 1..Len(d)}

DictHas(d, key) == key \in DictKeys(d)

\* d[key] = value: overwrite in place when the key exists, else insert at the end
DictSet(d, key, value) ==
    IF DictHas(d, key)
    THEN [i \in 1..Len(d) |-> IF d[i].k = key THEN [k |-> key, v |-> value] ELSE d[i]]
    ELSE Append(d, [k |-> key, v |-> value])

-----------------------------------------------------------------------------
(* The dedup store.                                                        *)

EmptyDict == <<>>

\* what open() and json.load() raise for a store file, "" when they raise nothing
ReadException(f) ==
    CASE f.kind = "unreadable"  -> "OSError"
      [] f.kind = "undecodable" -> "UnicodeDecodeError"
      [] f.kind = "malformed"   -> "JSONDecodeError"
      [] OTHER -> ""

\* the except clause of _load_emailed_companies
LoadCaught == {"JSONDecodeError", "OSError"}

\* manager.py _load_emailed_companies: [raised, value]
_load_emailed_companies(f) ==
    IF f.kind = "absent" THEN [raised |-> "", value |-> EmptyDict]
    ELSE IF ReadException(f) # ""
         THEN IF ReadException(f) \in LoadCaught
              THEN [raised |-> "", value |-> EmptyDict]
              ELSE [raised |-> ReadException(f), value |-> EmptyDict]
         ELSE [raised |-> "", value |-> IF f.kind = "dict" THEN f.data ELSE EmptyDict]

\* mutant of _save_emailed_company: the key is written as given
SaveRawKey(f, domain, now) ==
    LET l == _load_emailed_companies(f) IN
    IF l.raised # "" THEN [raised |-> l.raised, file |-> f]
    ELSE [raised |-> "", file |-> [kind |-> "dict", data |-> DictSet(l.value, domain, now)]]

\* manager.py _save_emailed_company: load, set, write the whole mapping: [raised, file]
_save_emailed_company(f, domain, now) ==
    LET l == _load_emailed_companies(f) IN
    IF l.raised # "" THEN [raised |-> l.raised, file |-> f]
    ELSE [raised |-> "",
          file |-> [kind |-> "dict",
                    data |-> DictSet(l.value, _normalize_domain(domain), now)]]

-----------------------------------------------------------------------------
(* Candidates, provider outputs and the arguments of run.                  *)

\* StartupItem(name, domain, one_liner, email); one_liner plays no part in run
StartupItem(name, domain, mail) == [name |-> name, domain |-> domain, email |-> mail]

Acme    == StartupItem("Acme", <<"a">>, None)
AcmeDup == StartupItem("ACME Inc", <<" ", "A">>, None)
Beta    == StartupItem("Beta", <<"b">>, Some(<<"x", "@", "b", ".">>))
Gamma   == StartupItem("Gamma", <<"C", " ">>, None)
NoDom   == StartupItem("Solo", <<>>, None)
Dotty   == StartupItem("Dotty", <<" ">>, Some(<<".">>))

\* the lists a caller passes as startups=
StartupLists ==
    { <<Acme, Beta, Gamma>>,
      <<AcmeDup, Acme>>,
      <<NoDom, Dotty>> }

\* what the discovery agent may answer (DiscoveryOutput.startups)
DiscoveryOutputs ==
    { <<>>,
      <<Acme, AcmeDup, NoDom, Beta>>,
      <<Gamma, Acme>> }

\* the address the email finder reports for a candidate when it finds one
FoundEmail(startup) == <<"i", "@">> \o Strip(startup.domain)

\* the loop of _discover_startups: keep the first item of every non-empty domain
RECURSIVE UniqueByDomain(_, _)
UniqueByDomain(items, seen) ==
    IF items = <<>> THEN <<>>
    ELSE LET d == _normalize_domain(Head(items).domain) IN
         IF d # <<>> /\ d \notin seen
         THEN <<Head(items)>> \o UniqueByDomain(Tail(items), seen \cup {d})
         ELSE UniqueByDomain(Tail(items), seen)

\* mutant of _discover_startups: of the candidates of one domain the last is kept
DiscoverKeepsLast(output) ==
    LET Reverse(s) == [i \in 1..Len(s) |-> s[Len(s) + 1 - i]]
    IN Reverse(UniqueByDomain(Reverse(output), {}))

\* manager.py _discover_startups, given the agent's answer
_discover_startups(output) == UniqueByDomain(output, {})

\* max_startups values
MaxStartupsValues == {None, Some(-1), Some(0), Some(1), Some(2)}

\* (confirm_before_send, confirm_callback is not None)
ConfirmModes ==
    { [confirm_before_send |-> FALSE, has_callback |-> FALSE],
      [confirm_before_send |-> TRUE, has_callback |-> TRUE],
      [confirm_before_send |-> TRUE, has_callback |-> FALSE] }

Configs ==
    { [startups |-> st, max_startups |-> m, confirm_before_send |-> c.confirm_before_send,
       has_callback |-> c.has_callback, headless |-> h] :
        st \in {None} \cup {Some(l) : l \in StartupLists},
        m \in MaxStartupsValues, c \in ConfirmModes, h \in BOOLEAN }

\* store files a run can start from: written by earlier runs, or damaged
InitialDicts ==
    { <<[k |-> <<"a">>, v |-> 0]>>,
      <<[k |-> <<"b">>, v |-> 0], [k |-> <<"c">>, v |-> 0]>> }

File(kind, data) == [kind |-> kind, data |-> data]

\* no load has been made yet
NotLoaded == [done |-> FALSE, of |-> File("absent", EmptyDict), raised |-> "", value |-> EmptyDict]

RunFiles ==
    {File("absent", EmptyDict), File("undecodable", EmptyDict), File("malformed", EmptyDict)}
    \cup {File("dict", d) : d \in InitialDicts}

-----------------------------------------------------------------------------
(* OutreachResult and the trace of operations.                             *)

EmptyResult ==
    [discovered |-> <<>>, with_email |-> <<>>, drafts |-> <<>>, sent |-> <<>>,
     failed_send |-> <<>>, skipped_no_email |-> <<>>, skipped_already_emailed |-> <<>>]

NoCand == StartupItem("", <<>>, None)

\* one operation on a collaborator: op, the candidate it is for, the iteration, the
\* position in the batch (0 outside the for loop), its outcome
Event(op, cand, rnd, i, res) == [op |-> op, cand |-> cand, rnd |-> rnd, i |-> i, res |-> res]

-----------------------------------------------------------------------------
(* The send layer (outlook/send.py).                                       *)

\* the steps of send_one_on_session, in order: _click_new_mail, the steps of
\* _fill_and_send, then context.storage_state
SendSteps ==
    <<"click_new_mail", "to_field", "subject_field", "body_field", "attach",
      "send_button", "storage_state">>

StepSet == {SendSteps[i] : i \in 1..Len(SendSteps)}

\* what a step can meet: "ok", or the class of the exception it raises.  The
\* resolution steps raise RuntimeError when their chain is exhausted; clicks and
\* fills raise Playwright's errors.  All three classes derive from Exception
\* (cancellation of the task, a BaseException, is no failure of a step and is left
\* out).  The attach step has a third outcome, "skipped": a file that does not
\* exist or a chooser that never opens is reported and passed over (lines 197-199
\* and 243-244) without raising.
StepOutcomes(step) ==
    CASE step = "click_new_mail" -> {"ok", "PlaywrightError"}
      [] step = "to_field"       -> {"ok", "RuntimeError", "PlaywrightError"}
      [] step = "subject_field"  -> {"ok", "RuntimeError"}
      [] step = "body_field"     -> {"ok", "RuntimeError", "PlaywrightTimeout"}
      [] step = "attach"         -> {"ok", "skipped", "PlaywrightError"}
      [] step = "send_button"    -> {"ok", "RuntimeError", "PlaywrightTimeout"}
      [] step = "storage_state"  -> {"ok", "PlaywrightError"}

\* the pages a send can run into
Pages == {pg \in [StepSet -> {"ok", "skipped", "RuntimeError", "PlaywrightError",
                             "PlaywrightTimeout"}] :
            \A st \in StepSet : pg[st] \in StepOutcomes(st)}

AllOk == [st \in StepSet |-> "ok"]

\* the outcome is an exception
Raises(outcome) == outcome \notin {"ok", "skipped"}

NoFailure == [at |-> "", cls |-> ""]

\* the first step of a send that raises on page pg, and what it raises
FirstFailure(pg) ==
    IF \A i \in 1..Len(SendSteps) : ~Raises(pg[SendSteps[i]]) THEN NoFailure
    ELSE LET i == CHOOSE j \in 1..Len(SendSteps) :
                     /\ Raises(pg[SendSteps[j]])
                     /\ \A h \in 1..(j - 1) : ~Raises(pg[SendSteps[h]])
         IN [at |-> SendSteps[i], cls |-> pg[SendSteps[i]]]

\* the ways one send can go
SendFailures == {FirstFailure(pg) : pg \in Pages}

\* mutant of SendCaught: only timeouts are handled
SendCaughtTimeoutOnly(cls) == cls = "PlaywrightTimeout"

\* the handler of send_one_on_session: except Exception
SendCaught(cls) == cls \in {"RuntimeError", "PlaywrightTimeout", "PlaywrightError"}

\* mutant of send_one_on_session: a successful send leaves the snapshot unwritten
SendOneNoSnapshot(f) ==
    IF f.at = "" THEN [ret |-> TRUE, raised |-> "", snapshot |-> FALSE]
    ELSE IF SendCaught(f.cls) THEN [ret |-> FALSE, raised |-> "", snapshot |-> FALSE]
    ELSE [ret |-> FALSE, raised |-> f.cls, snapshot |-> FALSE]

\* outlook/send.py send_one_on_session under failure f: the value returned, what
\* escapes, whether the snapshot was written
send_one_on_session(f) ==
    IF f.at = "" THEN [ret |-> TRUE, raised |-> "", snapshot |-> TRUE]
    ELSE IF SendCaught(f.cls) THEN [ret |-> FALSE, raised |-> "", snapshot |-> FALSE]
    ELSE [ret |-> FALSE, raised |-> f.cls, snapshot |-> FALSE]

\* outlook/send.py close_outlook_send_session on session i
close_outlook_send_session(ss, i) ==
    [ss EXCEPT ![i] = [open |-> FALSE, closeCalls |-> ss[i].closeCalls + 1]]

Idle == [status |-> "idle", pos |-> 1, ret |-> FALSE, raised |-> "", snapshot |-> FALSE]

\* no session-layer call has been made
NoSession == [call |-> "none"]

\* no _fill_and_send call has been made
NoFill == [step |-> "none"]

\* main_async has printed nothing
NoReport == [printed |-> FALSE]

\* no process is recording in the store
NoProcs == <<>>

\* no single call is being followed
NoCall == [fn |-> "none"]

\* the command line, the concurrent processes and the single calls are at rest
ApartAtRest == report = NoReport /\ procs = NoProcs /\ call = NoCall

\* all variables of run, for the specifications that leave run alone
runVars == <<pc, cfg, clock, emailed, raw_list, batch, idx, email, sent_so_far,
             send_session, sessions, result, exc, round, log, iters>>

\* send_one_on_session, step by step, on an open session
InitSend ==
    /\ pc = "send"
    /\ ApartAtRest
    /\ cfg = [startups |-> None, max_startups |-> None, confirm_before_send |-> FALSE,
              has_callback |-> FALSE, headless |-> TRUE]
    /\ file = [kind |-> "absent", data |-> <<>>]
    /\ clock = 0
    /\ emailed = <<>>
    /\ raw_list = <<>>
    /\ batch = <<>>
    /\ idx = 0
    /\ email = None
    /\ sent_so_far = 0
    /\ send_session = 1
    /\ sessions = <<[open |-> TRUE, closeCalls |-> 0]>>
    /\ result = [discovered |-> <<>>, with_email |-> <<>>, drafts |-> <<>>, sent |-> <<>>,
                 failed_send |-> <<>>, skipped_no_email |-> <<>>,
                 skipped_already_emailed |-> <<>>]
    /\ exc = ""
    /\ round = 1
    /\ log = <<>>
    /\ iters = <<>>
    /\ loaded = [done |-> FALSE, of |-> [kind |-> "absent", data |-> <<>>],
                 raised |-> "", value |-> <<>>]
    /\ page \in Pages
    /\ snd = Idle
    /\ pw = NoSession
    /\ fill = NoFill

\* line 363: the call enters the try block
SendCall ==
    /\ snd.status = "idle"
    /\ snd' = [snd EXCEPT !.status = "running"]
    /\ UNCHANGED <<runVars, file, loaded, page, pw, fill, apart>>

\* lines 364-372: the next step completes
SendStepOk ==
    /\ snd.status = "running"
    /\ snd.pos <= Len(SendSteps)
    /\ ~Raises(page[SendSteps[snd.pos]])
    /\ snd' = [snd EXCEPT !.pos = snd.pos + 1,
                          !.snapshot = SendSteps[snd.pos] = "storage_state"]
    /\ UNCHANGED <<runVars, file, loaded, page, pw, fill, apart>>

\* lines 374-376: the next step raises; the handler turns what it covers into False
SendStepRaises ==
    /\ snd.status = "running"
    /\ snd.pos <= Len(SendSteps)
    /\ Raises(page[SendSteps[snd.pos]])
    /\ snd' = IF SendCaught(page[SendSteps[snd.pos]])
              THEN [snd EXCEPT !.status = "returned", !.ret = FALSE]
              ELSE [snd EXCEPT !.status = "raised", !.raised = page[SendSteps[snd.pos]]]
    /\ UNCHANGED <<runVars, file, loaded, page, pw, fill, apart>>

\* line 373: return True
SendReturnTrue ==
    /\ snd.status = "running"
    /\ snd.pos = Len(SendSteps) + 1
    /\ snd' = [snd EXCEPT !.status = "returned", !.ret = TRUE]
    /\ UNCHANGED <<runVars, file, loaded, page, pw, fill, apart>>

NextSend == SendCall \/ SendStepOk \/ SendStepRaises \/ SendReturnTrue

SpecSend == InitSend /\ [][NextSend]_vars

-----------------------------------------------------------------------------
(* OutreachManager.run.                                                    *)

\* Python truthiness of an optional string
Falsy(e) == e = None \/ e = Some(<<>>)

InitRun ==
    /\ pc = "start"
    /\ ApartAtRest
    /\ cfg \in Configs
    /\ file \in RunFiles
    /\ clock = 0
    /\ emailed = EmptyDict
    /\ raw_list = <<>>
    /\ batch = <<>>
    /\ idx = 0
    /\ email = None
    /\ sent_so_far = 0
    /\ send_session = 0
    /\ sessions = <<>>
    /\ result = EmptyResult
    /\ exc = ""
    /\ round = 0
    /\ log = <<>>
    /\ iters = <<>>
    /\ loaded = NotLoaded
    /\ page = AllOk
    /\ snd = Idle
    /\ pw = NoSession
    /\ fill = NoFill

\* mutant of Start: the session check is made in headless mode as well
StartEnsuresAlways ==
    /\ pc = "start"
    /\ pc' = "loop"
    /\ \E ok \in BOOLEAN :
          log' = Append(log, Event("ensure", NoCand, 0, 0, IF ok THEN "true" ELSE "false"))
    /\ UNCHANGED <<cfg, file, clock, emailed, raw_list, batch, idx, email, sent_so_far,
                   send_session, sessions, result, exc, round, iters, offRun>>

\* lines 239-252: the attachments, then the up-front session check when not headless
Start ==
    /\ pc = "start"
    /\ pc' = "loop"
    /\ IF cfg.headless
       THEN log' = log
       ELSE \E ok \in BOOLEAN :
                log' = Append(log, Event("ensure", NoCand, 0, 0, IF ok THEN "true" ELSE "false"))
    /\ UNCHANGED <<cfg, file, clock, emailed, raw_list, batch, idx, email, sent_so_far,
                   send_session, sessions, result, exc, round, iters, offRun>>

\* mutant of to_process_of: the lookup uses the domain as given
ToProcessRawDomain(raw, mapping) ==
    LET Keep[i \in 0..Len(raw)] ==
            IF i = 0 THEN <<>>
            ELSE IF DictHas(mapping, raw[i].domain)
                 THEN Keep[i - 1] ELSE Append(Keep[i - 1], raw[i])
    IN Keep[Len(raw)]

\* lines 260-265: the candidates that go on
to_process_of(raw, mapping) ==
    LET Keep[i \in 0..Len(raw)] ==
            IF i = 0 THEN <<>>
            ELSE IF DictHas(mapping, _normalize_domain(raw[i].domain))
                 THEN Keep[i - 1] ELSE Append(Keep[i - 1], raw[i])
    IN Keep[Len(raw)]

\* lines 260-265: the names appended to skipped_already_emailed
skipped_of(raw, mapping) ==
    LET Skip[i \in 0..Len(raw)] ==
            IF i = 0 THEN <<>>
            ELSE IF DictHas(mapping, _normalize_domain(raw[i].domain))
                 THEN Append(Skip[i - 1], raw[i].name) ELSE Skip[i - 1]
    IN Skip[Len(raw)]

\* mutant of batch_of: the cap is applied without the sends already made
BatchIgnoresSent(to_process) ==
    IF cfg.max_startups # None
    THEN PySlice(to_process, cfg.max_startups[1])
    ELSE to_process

\* mutant of batch_of: the cap keeps the end of the list
BatchKeepsTail(to_process) ==
    IF cfg.max_startups # None
    THEN LET k == Len(PySlice(to_process, cfg.max_startups[1] - sent_so_far))
         IN SubSeq(to_process, Len(to_process) - k + 1, Len(to_process))
    ELSE to_process

\* mutant of batch_of: the slice takes one candidate more than the remaining quota
BatchOneOver(to_process) ==
    IF cfg.max_startups # None
    THEN PySlice(to_process, cfg.max_startups[1] - sent_so_far + 1)
    ELSE to_process

\* lines 267-270
batch_of(to_process) ==
    IF cfg.max_startups # None
    THEN PySlice(to_process, cfg.max_startups[1] - sent_so_far)
    ELSE to_process

\* line 255 when the load raises: the error leaves run
LoopLoadRaises ==
    /\ pc = "loop"
    /\ round < MaxRounds
    /\ _load_emailed_companies(file).raised # ""
    /\ round' = round + 1
    /\ log' = Append(log, Event("load", NoCand, round + 1, 0, "raised"))
    /\ exc' = _load_emailed_companies(file).raised
    /\ pc' = "raised"
    /\ UNCHANGED <<cfg, file, clock, emailed, raw_list, batch, idx, email, sent_so_far,
                   send_session, sessions, result, iters, offRun>>

\* line 259 when the discovery call raises: the error leaves run
LoopDiscoverRaises ==
    /\ pc = "loop"
    /\ round < MaxRounds
    /\ _load_emailed_companies(file).raised = ""
    /\ cfg.startups = None
    /\ round' = round + 1
    /\ emailed' = _load_emailed_companies(file).value
    /\ log' = log \o <<Event("load", NoCand, round + 1, 0, "ok"),
                       Event("discover", NoCand, round + 1, 0, "raised")>>
    /\ exc' = "ProviderError"
    /\ pc' = "raised"
    /\ UNCHANGED <<cfg, file, clock, raw_list, batch, idx, email, sent_so_far,
                   send_session, sessions, result, iters, offRun>>

\* lines 254-280 with the candidate list raw: partition, truncate, record
LoopBody(raw, events) ==
    LET mapping == _load_emailed_companies(file).value
        to_process == to_process_of(raw, mapping)
        b == batch_of(to_process)
        skipped == result.skipped_already_emailed \o skipped_of(raw, mapping)
    IN /\ round' = round + 1
       /\ emailed' = mapping
       /\ raw_list' = raw
       /\ batch' = b
       /\ log' = log \o events
       /\ IF b = <<>>
          THEN /\ result' = [result EXCEPT !.skipped_already_emailed = skipped]
               /\ pc' = "returned"
               /\ UNCHANGED <<idx, send_session>>
          ELSE /\ result' = [result EXCEPT
                                !.skipped_already_emailed = skipped,
                                !.discovered = IF cfg.max_startups = None
                                               THEN b ELSE result.discovered \o b]
               /\ send_session' = 0
               /\ idx' = 1
               /\ pc' = "for"
       /\ iters' = Append(iters, [to_process |-> to_process, batch |-> b])
       /\ UNCHANGED <<cfg, file, clock, email, sent_so_far, sessions, exc, offRun>>

\* one iteration's head with the caller's list (line 257)
LoopSupplied ==
    /\ pc = "loop"
    /\ round < MaxRounds
    /\ _load_emailed_companies(file).raised = ""
    /\ cfg.startups # None
    /\ LoopBody(cfg.startups[1], <<Event("load", NoCand, round + 1, 0, "ok")>>)

\* one iteration's head with a discovery call (line 259)
LoopDiscover ==
    /\ pc = "loop"
    /\ round < MaxRounds
    /\ _load_emailed_companies(file).raised = ""
    /\ cfg.startups = None
    /\ \E out \in DiscoveryOutputs :
          LoopBody(_discover_startups(out),
                   <<Event("load", NoCand, round + 1, 0, "ok"),
                     Event("discover", NoCand, round + 1, 0, "ok")>>)

\* the candidate the for loop is at
startup == batch[idx]

\* mutant of AfterEmail: only a missing address skips the candidate, an empty one is drafted
AfterEmailDraftsEmpty(e) ==
    IF e = None
    THEN /\ result' = [result EXCEPT
                          !.skipped_no_email = Append(result.skipped_no_email, startup.name)]
         /\ idx' = idx + 1
         /\ pc' = "for"
         /\ UNCHANGED email
    ELSE /\ result' = [result EXCEPT
                          !.with_email = Append(result.with_email, <<startup, e[1]>>)]
         /\ email' = e
         /\ pc' = "draft"
         /\ UNCHANGED idx

\* mutant of AfterEmail: a candidate without an address is passed over unrecorded
AfterEmailSkipsSilently(e) ==
    IF Falsy(e)
    THEN /\ idx' = idx + 1
         /\ pc' = "for"
         /\ UNCHANGED <<email, result>>
    ELSE /\ result' = [result EXCEPT
                          !.with_email = Append(result.with_email, <<startup, e[1]>>)]
         /\ email' = e
         /\ pc' = "draft"
         /\ UNCHANGED idx

\* lines 283-290 once the email is resolved
AfterEmail(e) ==
    IF Falsy(e)
    THEN /\ result' = [result EXCEPT
                          !.skipped_no_email = Append(result.skipped_no_email, startup.name)]
         /\ idx' = idx + 1
         /\ pc' = "for"
         /\ UNCHANGED email
    ELSE /\ result' = [result EXCEPT
                          !.with_email = Append(result.with_email, <<startup, e[1]>>)]
         /\ email' = e
         /\ pc' = "draft"
         /\ UNCHANGED idx

\* line 282 when the batch is exhausted: on to the finally block
ForDone ==
    /\ pc = "for"
    /\ idx > Len(batch)
    /\ pc' = "finally"
    /\ exc' = ""
    /\ UNCHANGED <<cfg, file, clock, emailed, raw_list, batch, idx, email, sent_so_far,
                   send_session, sessions, result, round, log, iters, offRun>>

\* lines 283-284: the candidate carries a non-blank email
ForSupplied ==
    /\ pc = "for"
    /\ idx <= Len(batch)
    /\ ~Falsy(startup.email) /\ Strip(startup.email[1]) # <<>>
    /\ AfterEmail(Some(normalize_email(startup.email[1])))
    /\ log' = Append(log, Event("normalize", startup, round, idx,
                                IF normalize_email(startup.email[1]) = <<>>
                                THEN "empty" ELSE "ok"))
    /\ UNCHANGED <<cfg, file, clock, emailed, raw_list, batch, sent_so_far,
                   send_session, sessions, exc, round, iters, offRun>>

\* lines 285-286: the finder answers, with an address or with none
ForFind ==
    /\ pc = "for"
    /\ idx <= Len(batch)
    /\ ~(~Falsy(startup.email) /\ Strip(startup.email[1]) # <<>>)
    /\ \E e \in {None, Some(FoundEmail(startup))} :
          /\ AfterEmail(e)
          /\ log' = Append(log, Event("find", startup, round, idx,
                                      IF e = None THEN "none" ELSE "found"))
    /\ UNCHANGED <<cfg, file, clock, emailed, raw_list, batch, sent_so_far,
                   send_session, sessions, exc, round, iters, offRun>>

\* line 286 when the finder call raises
ForFindRaises ==
    /\ pc = "for"
    /\ idx <= Len(batch)
    /\ ~(~Falsy(startup.email) /\ Strip(startup.email[1]) # <<>>)
    /\ log' = Append(log, Event("find", startup, round, idx, "raised"))
    /\ exc' = "ProviderError"
    /\ pc' = "finally"
    /\ UNCHANGED <<cfg, file, clock, emailed, raw_list, batch, idx, email, sent_so_far,
                   send_session, sessions, result, round, iters, offRun>>

\* lines 292-306: the writer answers and the draft is recorded
Draft ==
    /\ pc = "draft"
    /\ result' = [result EXCEPT
                     !.drafts = Append(result.drafts,
                                       [startup |-> startup, to_email |-> email[1]])]
    /\ log' = Append(log, Event("draft", startup, round, idx, "ok"))
    /\ pc' = "confirm"
    /\ UNCHANGED <<cfg, file, clock, emailed, raw_list, batch, idx, email, sent_so_far,
                   send_session, sessions, exc, round, iters, offRun>>

\* mutant of DraftRaises: the error is swallowed and the loop goes on
DraftRaisesSwallowed ==
    /\ pc = "draft"
    /\ log' = Append(log, Event("draft", startup, round, idx, "raised"))
    /\ idx' = idx + 1
    /\ pc' = "for"
    /\ UNCHANGED <<cfg, file, clock, emailed, raw_list, batch, email, sent_so_far,
                   send_session, sessions, result, exc, round, iters, offRun>>

\* line 292 when the writer call raises
DraftRaises ==
    /\ pc = "draft"
    /\ log' = Append(log, Event("draft", startup, round, idx, "raised"))
    /\ exc' = "ProviderError"
    /\ pc' = "finally"
    /\ UNCHANGED <<cfg, file, clock, emailed, raw_list, batch, idx, email, sent_so_far,
                   send_session, sessions, result, round, iters, offRun>>

\* mutant of AfterConfirm: a session is opened for every approved send
AfterConfirmAlwaysOpens(should_send) ==
    IF should_send
    THEN /\ pc' = "open"
         /\ UNCHANGED idx
    ELSE /\ pc' = "for"
         /\ idx' = idx + 1

\* mutant of AfterConfirm: the session is opened before should_send is looked at
AfterConfirmOpensFirst(should_send) ==
    IF send_session = 0
    THEN /\ pc' = "open"
         /\ UNCHANGED idx
    ELSE IF should_send
         THEN /\ pc' = "send"
              /\ UNCHANGED idx
         ELSE /\ pc' = "for"
              /\ idx' = idx + 1

\* lines 312-316: where should_send leads
AfterConfirm(should_send) ==
    IF should_send
    THEN /\ pc' = IF send_session = 0 THEN "open" ELSE "send"
         /\ UNCHANGED idx
    ELSE /\ pc' = "for"
         /\ idx' = idx + 1

\* mutant of should_send_without_callback: a missing callback counts as approval
ShouldSendDefaultsTrue == TRUE

\* lines 308-310 when no callback is called: True, or False when confirmation is wanted
should_send_without_callback == ~cfg.confirm_before_send

\* lines 308-310 without a callback call: no confirmation wanted, or no callback given
ConfirmSkipped ==
    /\ pc = "confirm"
    /\ ~(cfg.confirm_before_send /\ cfg.has_callback)
    /\ AfterConfirm(should_send_without_callback)
    /\ UNCHANGED <<cfg, file, clock, emailed, raw_list, batch, email, sent_so_far,
                   send_session, sessions, result, exc, round, log, iters, offRun>>

\* line 310: the callback answers
Confirm ==
    /\ pc = "confirm"
    /\ cfg.confirm_before_send /\ cfg.has_callback
    /\ \E answer \in BOOLEAN :
          /\ AfterConfirm(answer)
          /\ log' = Append(log, Event("confirm", startup, round, idx,
                                      IF answer THEN "yes" ELSE "no"))
    /\ UNCHANGED <<cfg, file, clock, emailed, raw_list, batch, email, sent_so_far,
                   send_session, sessions, result, exc, round, iters, offRun>>

\* line 310 when the callback raises
ConfirmRaises ==
    /\ pc = "confirm"
    /\ cfg.confirm_before_send /\ cfg.has_callback
    /\ log' = Append(log, Event("confirm", startup, round, idx, "raised"))
    /\ exc' = "CallbackError"
    /\ pc' = "finally"
    /\ UNCHANGED <<cfg, file, clock, emailed, raw_list, batch, idx, email, sent_so_far,
                   send_session, sessions, result, round, iters, offRun>>

\* lines 313-316: open_outlook_send_session returns a session
Open ==
    /\ pc = "open"
    /\ sessions' = Append(sessions, [open |-> TRUE, closeCalls |-> 0])
    /\ send_session' = Len(sessions) + 1
    /\ log' = Append(log, Event("open", startup, round, idx, "ok"))
    /\ pc' = "send"
    /\ UNCHANGED <<cfg, file, clock, emailed, raw_list, batch, idx, email, sent_so_far,
                   result, exc, round, iters, offRun>>

\* line 314 when open_outlook_send_session raises (it has released what it acquired)
OpenRaises ==
    /\ pc = "open"
    /\ log' = Append(log, Event("open", startup, round, idx, "raised"))
    /\ exc' = "RuntimeError"
    /\ pc' = "finally"
    /\ UNCHANGED <<cfg, file, clock, emailed, raw_list, batch, idx, email, sent_so_far,
                   send_session, sessions, result, round, iters, offRun>>

\* mutant of Bookkeeping: a failed send ends the batch
BookkeepingStopsOnFailure(ok) ==
    LET saved == _save_emailed_company(file, startup.domain, clock + 1) IN
    IF ok
    THEN /\ result' = [result EXCEPT !.sent = Append(result.sent, email[1])]
         /\ file' = saved.file
         /\ clock' = clock + 1
         /\ sent_so_far' = sent_so_far + 1
         /\ idx' = idx + 1
         /\ pc' = "for"
         /\ UNCHANGED exc
    ELSE /\ result' = [result EXCEPT !.failed_send = Append(result.failed_send, email[1])]
         /\ idx' = Len(batch) + 1
         /\ pc' = "for"
         /\ UNCHANGED <<file, clock, sent_so_far, exc>>

\* mutant of Bookkeeping: the dedup entry is written whatever the send returned
BookkeepingSavesAlways(ok) ==
    LET saved == _save_emailed_company(file, startup.domain, clock + 1) IN
    /\ result' = IF ok
                 THEN [result EXCEPT !.sent = Append(result.sent, email[1])]
                 ELSE [result EXCEPT !.failed_send = Append(result.failed_send, email[1])]
    /\ file' = saved.file
    /\ clock' = clock + 1
    /\ sent_so_far' = IF ok THEN sent_so_far + 1 ELSE sent_so_far
    /\ idx' = idx + 1
    /\ pc' = "for"
    /\ UNCHANGED exc

\* lines 325-331: what run records once send_one_on_session has returned ok
Bookkeeping(ok) ==
    LET saved == _save_emailed_company(file, startup.domain, clock + 1) IN
    IF ok
    THEN /\ result' = [result EXCEPT !.sent = Append(result.sent, email[1])]
         /\ IF saved.raised # ""
            THEN /\ exc' = saved.raised
                 /\ pc' = "finally"
                 /\ UNCHANGED <<file, clock, idx, sent_so_far>>
            ELSE /\ file' = saved.file
                 /\ clock' = clock + 1
                 /\ sent_so_far' = sent_so_far + 1
                 /\ idx' = idx + 1
                 /\ pc' = "for"
                 /\ UNCHANGED exc
    ELSE /\ result' = [result EXCEPT !.failed_send = Append(result.failed_send, email[1])]
         /\ idx' = idx + 1
         /\ pc' = "for"
         /\ UNCHANGED <<file, clock, sent_so_far, exc>>

\* lines 317-331: one send attempt under failure f, and the bookkeeping after it
SendWith(f) ==
    LET r == send_one_on_session(f) IN
    IF r.raised # ""
    THEN /\ log' = Append(log, Event("send", startup, round, idx, "raised"))
         /\ exc' = r.raised
         /\ pc' = "finally"
         /\ UNCHANGED <<file, clock, idx, sent_so_far, result>>
    ELSE /\ log' = Append(log, Event("send", startup, round, idx,
                                     IF r.ret THEN "true" ELSE "false"))
         /\ Bookkeeping(r.ret)

\* lines 317-331
Send ==
    /\ pc = "send"
    /\ \E f \in SendFailures : SendWith(f)
    /\ UNCHANGED <<cfg, emailed, raw_list, batch, email, send_session, sessions,
                   round, iters, offRun>>

\* mutant of Finally: the close is skipped when an exception is travelling
FinallyOnlyOnSuccess ==
    /\ pc = "finally"
    /\ IF send_session # 0 /\ exc = ""
       THEN /\ sessions' = close_outlook_send_session(sessions, send_session)
            /\ log' = Append(log, Event("close", NoCand, round, 0, "ok"))
       ELSE UNCHANGED <<sessions, log>>
    /\ pc' = IF exc # "" THEN "raised" ELSE "after"
    /\ UNCHANGED <<cfg, file, clock, emailed, raw_list, batch, idx, email, sent_so_far,
                   send_session, result, exc, round, iters, offRun>>

\* lines 332-334: the finally block, then the exception (if any) goes on
Finally ==
    /\ pc = "finally"
    /\ IF send_session # 0
       THEN /\ sessions' = close_outlook_send_session(sessions, send_session)
            /\ log' = Append(log, Event("close", NoCand, round, 0, "ok"))
       ELSE UNCHANGED <<sessions, log>>
    /\ pc' = IF exc # "" THEN "raised" ELSE "after"
    /\ UNCHANGED <<cfg, file, clock, emailed, raw_list, batch, idx, email, sent_so_far,
                   send_session, result, exc, round, iters, offRun>>

\* mutant of After: with a cap the loop always goes round again
AfterStopsOnlyUncapped ==
    /\ pc = "after"
    /\ pc' = IF cfg.max_startups = None THEN "returned" ELSE "loop"
    /\ UNCHANGED <<cfg, file, clock, emailed, raw_list, batch, idx, email, sent_so_far,
                   send_session, sessions, result, exc, round, log, iters, offRun>>

\* lines 336-341: leave the loop or go round again
After ==
    /\ pc = "after"
    /\ pc' = IF cfg.max_startups = None \/ sent_so_far >= cfg.max_startups[1]
             THEN "returned" ELSE "loop"
    /\ UNCHANGED <<cfg, file, clock, emailed, raw_list, batch, idx, email, sent_so_far,
                   send_session, sessions, result, exc, round, log, iters, offRun>>

Next ==
    \/ Start
    \/ LoopLoadRaises
    \/ LoopDiscoverRaises
    \/ LoopSupplied
    \/ LoopDiscover
    \/ ForDone
    \/ ForSupplied
    \/ ForFind
    \/ ForFindRaises
    \/ Draft
    \/ DraftRaises
    \/ ConfirmSkipped
    \/ Confirm
    \/ ConfirmRaises
    \/ Open
    \/ OpenRaises
    \/ Send
    \/ Finally
    \/ After

Spec == InitRun /\ [][Next]_vars

-----------------------------------------------------------------------------
(* The command line around run: main_async (main.py, lines 88-133).        *)

\* main.py _print_result: the sections of the report; a section of an empty list
\* prints no entry
_print_result(r) ==
    [printed |-> TRUE, discovered |-> r.discovered, with_email |-> r.with_email,
     skipped_no_email |-> r.skipped_no_email,
     skipped_already_emailed |-> r.skipped_already_emailed, drafts |-> r.drafts,
     sent |-> r.sent, failed_send |-> r.failed_send]

\* lines 90-93, 120-131: main_async never passes startups and passes the callback
\* exactly when confirmation is wanted
InitCli ==
    /\ InitRun
    /\ cfg.startups = None
    /\ cfg.has_callback = cfg.confirm_before_send

\* lines 122-133: run has returned and the result is printed
PrintResult ==
    /\ pc = "returned"
    /\ report' = _print_result(result)
    /\ pc' = "exited"
    /\ UNCHANGED <<cfg, file, clock, emailed, raw_list, batch, idx, email, sent_so_far,
                   send_session, sessions, result, exc, round, log, iters, loaded, page,
                   snd, pw, fill, procs, call>>

\* lines 122-131: run has raised; nothing in main_async or main catches, and the
\* process ends with line 133 not reached
RunRaised ==
    /\ pc = "raised"
    /\ pc' = "exited"
    /\ UNCHANGED <<cfg, file, clock, emailed, raw_list, batch, idx, email, sent_so_far,
                   send_session, sessions, result, exc, round, log, iters, loaded, page,
                   snd, pw, fill, report, procs, call>>

NextCli ==
    \/ Start
    \/ LoopLoadRaises
    \/ LoopDiscoverRaises
    \/ LoopDiscover
    \/ ForDone
    \/ ForSupplied
    \/ ForFind
    \/ ForFindRaises
    \/ Draft
    \/ DraftRaises
    \/ ConfirmSkipped
    \/ Confirm
    \/ ConfirmRaises
    \/ Open
    \/ OpenRaises
    \/ Send
    \/ Finally
    \/ After
    \/ PrintResult
    \/ RunRaised

SpecCli == InitCli /\ [][NextCli]_vars

-----------------------------------------------------------------------------
(* The dedup store on its own: loads and record operations of one process. *)

\* every kind of store file _load_emailed_companies can meet
StoreFiles ==
    RunFiles \cup {File("unreadable", EmptyDict), File("nondict", EmptyDict),
                   File("dict", EmptyDict)}
             \cup {File("unreadable", d) : d \in InitialDicts}

\* the spellings of domains that are recorded
RecordedDomains == { <<"a">>, <<" ", "A">>, <<"A", " ">>, <<"b">>, <<>> }

InitStore ==
    /\ pc = "store"
    /\ ApartAtRest
    /\ cfg = [startups |-> None, max_startups |-> None, confirm_before_send |-> FALSE,
              has_callback |-> FALSE, headless |-> TRUE]
    /\ file \in StoreFiles
    /\ clock = 0
    /\ emailed = EmptyDict
    /\ raw_list = <<>>
    /\ batch = <<>>
    /\ idx = 0
    /\ email = None
    /\ sent_so_far = 0
    /\ send_session = 0
    /\ sessions = <<>>
    /\ result = EmptyResult
    /\ exc = ""
    /\ round = 0
    /\ log = <<>>
    /\ iters = <<>>
    /\ loaded = NotLoaded
    /\ page = AllOk
    /\ snd = Idle
    /\ pw = NoSession
    /\ fill = NoFill

\* a call of _load_emailed_companies(EMAILED_COMPANIES_PATH)
StoreLoad ==
    /\ loaded' = [done |-> TRUE, of |-> file,
                  raised |-> _load_emailed_companies(file).raised,
                  value |-> _load_emailed_companies(file).value]
    /\ UNCHANGED <<pc, cfg, file, clock, emailed, raw_list, batch, idx, email, sent_so_far,
                   send_session, sessions, result, exc, round, log, iters, page, snd, pw, fill,
                   apart>>

\* a call of _save_emailed_company(EMAILED_COMPANIES_PATH, domain) at the next clock
\* value.  A file that open() cannot read (line 38) holds the mapping that was
\* written to it; open(path, "w") on it fails too (OSError leaves the call, the
\* file stays) or succeeds, as for a file without read permission.
StoreRecord ==
    /\ clock < MaxClock
    /\ \E domain \in RecordedDomains, writable \in BOOLEAN :
          LET saved == IF file.kind = "unreadable" /\ ~writable
                       THEN [raised |-> "OSError", file |-> file]
                       ELSE _save_emailed_company(file, domain, clock + 1)
          IN
          /\ file.kind # "unreadable" => writable
          /\ file' = saved.file
          /\ log' = Append(log, Event("record", StartupItem("", domain, None), clock + 1, 0,
                                      IF saved.raised = "" THEN "ok" ELSE "raised"))
    /\ clock' = clock + 1
    /\ UNCHANGED <<pc, cfg, emailed, raw_list, batch, idx, email, sent_so_far,
                   send_session, sessions, result, exc, round, iters, loaded, page, snd, pw, fill,
                   apart>>

NextStore == StoreLoad \/ StoreRecord

SpecStore == InitStore /\ [][NextStore]_vars

-----------------------------------------------------------------------------
(* The dedup store under several pipeline processes: _save_emailed_company *)
(* (manager.py, lines 46-51) step by step, with nothing between its read   *)
(* and its write that keeps another process out.                           *)

\* bound: record operations followed, all processes together
MaxRecords == 2

\* the domains the processes record
RaceDomains == { <<"a">>, <<"A", " ">>, <<"b">> }

\* the store the processes start from
RaceFiles == { File("absent", EmptyDict), File("dict", <<[k |-> <<"a">>, v |-> 0]>>) }

\* a process outside _save_emailed_company
ProcIdle ==
    [at |-> "idle", domain |-> <<>>, seen |-> File("absent", EmptyDict),
     data |-> File("absent", EmptyDict), now |-> 0, overwritten |-> FALSE]

\* one process, or two
ProcessSets == { <<ProcIdle>>, <<ProcIdle, ProcIdle>> }

\* variables the store operations of the processes leave alone
raceFrame == <<pc, cfg, emailed, raw_list, batch, idx, email, sent_so_far, send_session,
               sessions, result, exc, round, iters, loaded, page, snd, pw, fill, report,
               call>>

InitRace ==
    /\ pc = "race"
    /\ cfg = [startups |-> None, max_startups |-> None, confirm_before_send |-> FALSE,
              has_callback |-> FALSE, headless |-> TRUE]
    /\ file \in RaceFiles
    /\ clock = 0
    /\ emailed = EmptyDict
    /\ raw_list = <<>>
    /\ batch = <<>>
    /\ idx = 0
    /\ email = None
    /\ sent_so_far = 0
    /\ send_session = 0
    /\ sessions = <<>>
    /\ result = EmptyResult
    /\ exc = ""
    /\ round = 0
    /\ log = <<>>
    /\ iters = <<>>
    /\ loaded = NotLoaded
    /\ page = AllOk
    /\ snd = Idle
    /\ pw = NoSession
    /\ fill = NoFill
    /\ report = NoReport
    /\ call = NoCall
    /\ procs \in ProcessSets

\* the event of the trace for a step of process p
RaceEvent(op, p, domain, now) == Event(op, StartupItem("", domain, None), now, p, "ok")

\* record operations begun so far
RecordsBegun ==
    LET N[n \in 0..Len(log)] ==
            IF n = 0 THEN 0 ELSE N[n - 1] + (IF log[n].op = "read" THEN 1 ELSE 0)
    IN N[Len(log)]

\* line 48: the process reads the store
SaveRead(p) ==
    /\ procs[p].at = "idle"
    /\ RecordsBegun < MaxRecords
    /\ \E domain \in RaceDomains :
          /\ procs' = [procs EXCEPT ![p] = [at |-> "read", domain |-> domain, seen |-> file,
                                            data |-> file, now |-> 0,
                                            overwritten |-> FALSE]]
          /\ log' = Append(log, RaceEvent("read", p, domain, clock))
    /\ UNCHANGED <<raceFrame, file, clock>>

\* mutant of modified: the mapping is taken from the store as it is when the write begins
ModifiedFromStore(p) == _save_emailed_company(file, procs[p].domain, clock + 1).file

\* lines 48-49: the mapping the process read, with its key set to the time of the call
modified(p) == _save_emailed_company(procs[p].seen, procs[p].domain, clock + 1).file

\* lines 49-50: the key is set and open(path, "w") empties the file
SaveOpen(p) ==
    /\ procs[p].at = "read"
    /\ clock' = clock + 1
    /\ procs' = [procs EXCEPT ![p].at = "open", ![p].data = modified(p), ![p].now = clock + 1]
    /\ file' = File("malformed", EmptyDict)
    /\ log' = Append(log, RaceEvent("open", p, procs[p].domain, clock + 1))
    /\ UNCHANGED raceFrame

\* line 51 and the end of the with block: the mapping is written from the start of
\* the file.  When another process has written since this one emptied the file, the
\* bytes of the two writes overlay: the file holds this mapping, or this mapping
\* followed by the rest of a longer one, which is no JSON document.
SaveDump(p) ==
    /\ procs[p].at = "open"
    /\ file' \in {procs[p].data}
                 \cup (IF procs[p].overwritten THEN {File("malformed", EmptyDict)} ELSE {})
    /\ procs' = [q \in 1..Len(procs) |->
                    IF q = p THEN [procs[q] EXCEPT !.at = "idle"]
                    ELSE IF procs[q].at = "open" THEN [procs[q] EXCEPT !.overwritten = TRUE]
                    ELSE procs[q]]
    /\ log' = Append(log, RaceEvent("dump", p, procs[p].domain, procs[p].now))
    /\ UNCHANGED <<raceFrame, clock>>

\* a step of one of the processes
ProcessReads == \E p \in 1..Len(procs) : SaveRead(p)
ProcessOpens == \E p \in 1..Len(procs) : SaveOpen(p)
ProcessDumps == \E p \in 1..Len(procs) : SaveDump(p)

NextRace == ProcessReads \/ ProcessOpens \/ ProcessDumps

SpecRace == InitRace /\ [][NextRace]_vars

-----------------------------------------------------------------------------
(* One send session from open to close: open_outlook_send_session and      *)
(* close_outlook_send_session step by step, inside lines 312-334 of run.   *)

\* bound: calls of close_outlook_send_session made on one session
MaxCloses == 2

\* what the automation library raises; both classes derive from Exception
AutomationErrors == {"PlaywrightError", "PlaywrightTimeout"}

\* the session layer before open_outlook_send_session is called; stored tells
\* whether the snapshot file exists
SessionAtRest(stored) ==
    [call |-> "none", at |-> "", error |-> "", runtime |-> "none", browser |-> "none",
     context |-> "none", surface |-> "unknown", stored |-> stored, ops |-> <<>>,
     closes |-> 0, failures |-> {}]

\* variables the session layer's own steps leave alone
sessionFrame == <<cfg, file, clock, emailed, raw_list, batch, idx, email, sent_so_far,
                  result, round, log, iters, loaded, page, snd, fill, apart>>

\* run is at line 313 with its first approved candidate and no session yet
InitSession ==
    /\ pc = "open"
    /\ ApartAtRest
    /\ cfg \in {[startups |-> None, max_startups |-> None, confirm_before_send |-> FALSE,
                 has_callback |-> FALSE, headless |-> h] : h \in BOOLEAN}
    /\ file = File("absent", EmptyDict)
    /\ clock = 0
    /\ emailed = EmptyDict
    /\ raw_list = <<Acme, Gamma>>
    /\ batch = <<Acme, Gamma>>
    /\ idx = 1
    /\ email = Some(FoundEmail(Acme))
    /\ sent_so_far = 0
    /\ send_session = 0
    /\ sessions = <<>>
    /\ result = EmptyResult
    /\ exc = ""
    /\ round = 1
    /\ log = <<>>
    /\ iters = <<>>
    /\ loaded = NotLoaded
    /\ page = AllOk
    /\ snd = Idle
    /\ pw \in {SessionAtRest(stored) : stored \in BOOLEAN}
    /\ fill = NoFill

\* a step of open_outlook_send_session inside its try block raises cls
OpenFails(cls) == pw' = [pw EXCEPT !.call = "open_except", !.error = cls]

\* lines 318-319: the automation runtime is entered, before the try block
OpenCall ==
    /\ pc = "open"
    /\ pw.call = "none"
    /\ \/ /\ pw' = [pw EXCEPT !.call = "open", !.at = "launch", !.runtime = "live"]
          /\ UNCHANGED <<pc, exc>>
       \/ /\ pc' = "finally"
          /\ exc' = "PlaywrightError"
          /\ UNCHANGED pw
    /\ UNCHANGED <<sessionFrame, send_session, sessions>>

\* line 323: chromium.launch
OpenLaunch ==
    /\ pw.call = "open"
    /\ pw.at = "launch"
    /\ \/ pw' = [pw EXCEPT !.at = "new_context", !.browser = "live"]
       \/ OpenFails("PlaywrightError")
    /\ UNCHANGED <<sessionFrame, pc, exc, send_session, sessions>>

\* lines 324-327: new_context, restoring the snapshot when the file exists
OpenContext ==
    /\ pw.call = "open"
    /\ pw.at = "new_context"
    /\ LET ops == IF pw.stored THEN Append(pw.ops, "read") ELSE pw.ops IN
       \/ pw' = [pw EXCEPT !.at = "new_page", !.context = "live", !.ops = ops]
       \/ pw' = [pw EXCEPT !.call = "open_except", !.error = "PlaywrightError", !.ops = ops]
    /\ UNCHANGED <<sessionFrame, pc, exc, send_session, sessions>>

\* lines 328-329: new_page, set_default_timeout
OpenPage ==
    /\ pw.call = "open"
    /\ pw.at = "new_page"
    /\ \/ pw' = [pw EXCEPT !.at = "goto"]
       \/ OpenFails("PlaywrightError")
    /\ UNCHANGED <<sessionFrame, pc, exc, send_session, sessions>>

\* _ensure_logged_in lines 34-38: navigation and the waits for the load state; the
\* page then shows the mailbox or a login form
OpenGoto ==
    /\ pw.call = "open"
    /\ pw.at = "goto"
    /\ \/ \E surface \in {"mail", "login"} :
             pw' = [pw EXCEPT !.at = "check_login", !.surface = surface]
       \/ \E cls \in AutomationErrors : OpenFails(cls)
    /\ UNCHANGED <<sessionFrame, pc, exc, send_session, sessions>>

\* mutant of login_fails_at_once: a headless session waits for the login as well
LoginAlwaysWaits(headless) == FALSE

\* _ensure_logged_in lines 41-44: on a login form a headless session raises at once
login_fails_at_once(headless) == headless

\* _ensure_logged_in lines 40-45: the test of the URL
OpenCheckLogin ==
    /\ pw.call = "open"
    /\ pw.at = "check_login"
    /\ IF pw.surface = "login"
       THEN IF login_fails_at_once(cfg.headless)
            THEN OpenFails("RuntimeError")
            ELSE pw' = [pw EXCEPT !.at = "login_wait"]
       ELSE pw' = [pw EXCEPT !.at = "storage_state"]
    /\ UNCHANGED <<sessionFrame, pc, exc, send_session, sessions>>

\* _ensure_logged_in lines 46-51: the bounded wait for the login, then the snapshot
OpenLoginWait ==
    /\ pw.call = "open"
    /\ pw.at = "login_wait"
    /\ \/ pw' = [pw EXCEPT !.at = "storage_state", !.surface = "mail", !.stored = TRUE,
                           !.ops = pw.ops \o <<"wait", "write">>]
       \/ pw' = [pw EXCEPT !.call = "open_except", !.error = "PlaywrightError",
                           !.surface = "mail", !.ops = Append(pw.ops, "wait")]
       \/ pw' = [pw EXCEPT !.call = "open_except", !.error = "PlaywrightTimeout",
                           !.ops = Append(pw.ops, "wait")]
    /\ UNCHANGED <<sessionFrame, pc, exc, send_session, sessions>>

\* line 331: the snapshot is written
OpenSnapshot ==
    /\ pw.call = "open"
    /\ pw.at = "storage_state"
    /\ \/ pw' = [pw EXCEPT !.at = "return", !.stored = TRUE, !.ops = Append(pw.ops, "write")]
       \/ OpenFails("PlaywrightError")
    /\ UNCHANGED <<sessionFrame, pc, exc, send_session, sessions>>

\* line 332 and run line 314: the session is returned and bound to send_session
OpenReturn ==
    /\ pw.call = "open"
    /\ pw.at = "return"
    /\ pw' = [pw EXCEPT !.call = "none", !.at = "", !.ops = Append(pw.ops, "opened")]
    /\ sessions' = Append(sessions, [open |-> TRUE, closeCalls |-> 0])
    /\ send_session' = Len(sessions) + 1
    /\ pc' = "send"
    /\ UNCHANGED <<sessionFrame, exc>>

\* mutant of Released: the except block closes nothing
ReleasedNothing(state) == {state}

\* what a close call on a resource leaves: nothing when there is none, else the
\* resource closed, or the call failed and its error was swallowed
Released(state) == IF state = "none" THEN {"none"} ELSE {"closed", "close_failed"}

\* lines 333-348: the except block closes what was acquired, swallowing the errors
\* of the close calls, and raises the error again, which leaves run's try block
OpenExcept ==
    /\ pw.call = "open_except"
    /\ \E c \in Released(pw.context), b \in Released(pw.browser), r \in Released(pw.runtime) :
          pw' = [pw EXCEPT !.call = "none", !.at = "", !.context = c, !.browser = b,
                           !.runtime = r]
    /\ pc' = "finally"
    /\ exc' = pw.error
    /\ UNCHANGED <<sessionFrame, send_session, sessions>>


\* lines 317-331 on the open session: one send_one_on_session call and run's
\* bookkeeping; the snapshot write of line 372 is noted when the call made it
SessionSend ==
    /\ pc = "send"
    /\ pw.call = "none"
    /\ \E f \in SendFailures :
          LET r == send_one_on_session(f) IN
          /\ SendWith(f)
          /\ pw' = [pw EXCEPT
                       !.stored = pw.stored \/ r.snapshot,
                       !.ops = pw.ops \o (IF r.snapshot THEN <<"write">> ELSE <<>>)
                                      \o <<IF r.ret THEN "send:true" ELSE "send:false">>]
    /\ UNCHANGED <<cfg, emailed, raw_list, batch, email, send_session, sessions,
                   round, iters, loaded, page, snd, fill, apart>>

\* lines 282-313 for the next candidate, taken as resolved, drafted and approved;
\* the session is open, so line 314 is not reached again
SessionFor ==
    /\ pc = "for"
    /\ IF idx <= Len(batch)
       THEN /\ email' = Some(FoundEmail(startup))
            /\ pc' = "send"
            /\ UNCHANGED exc
       ELSE /\ pc' = "finally"
            /\ exc' = ""
            /\ UNCHANGED email
    /\ UNCHANGED <<cfg, file, clock, emailed, raw_list, batch, idx, sent_so_far,
                   send_session, sessions, result, round, log, iters, loaded, page, snd,
                   pw, fill, apart>>

\* the steps of close_outlook_send_session, in order
CloseSteps == <<"storage_state", "context_close", "browser_close", "aexit">>

\* mutant of CloseCaught: only timeouts are swallowed
CloseCaughtTimeoutOnly(cls) == cls = "PlaywrightTimeout"

\* the four handlers of close_outlook_send_session: except Exception
CloseCaught(cls) == cls \in AutomationErrors \cup {"OSError"}

\* lines 332-333 without a session: nothing to close, the exception (if any) goes on
FinallyNoSession ==
    /\ pc = "finally"
    /\ send_session = 0
    /\ pc' = IF exc # "" THEN "raised" ELSE "after"
    /\ UNCHANGED <<sessionFrame, exc, send_session, sessions, pw>>

\* lines 333-334: the finally block calls close_outlook_send_session
CloseCall ==
    /\ pc = "finally"
    /\ send_session # 0
    /\ pw.call = "none"
    /\ pw.closes = 0
    /\ pw' = [pw EXCEPT !.call = "close", !.at = 1, !.ops = Append(pw.ops, "close")]
    /\ UNCHANGED <<sessionFrame, pc, exc, send_session, sessions>>

\* close_outlook_send_session is called once more on the session already closed
CloseAgain ==
    /\ pc \in {"after", "raised"}
    /\ send_session # 0
    /\ pw.call = "none"
    /\ pw.closes >= 1
    /\ pw.closes < MaxCloses
    /\ pw' = [pw EXCEPT !.call = "close", !.at = 1, !.ops = Append(pw.ops, "close")]
    /\ UNCHANGED <<sessionFrame, pc, exc, send_session, sessions>>

\* lines 381-396: the next step of the close succeeds.  The snapshot can only be
\* taken from a live context.
CloseStepOk ==
    /\ pw.call = "close"
    /\ pw.at <= Len(CloseSteps)
    /\ LET step == CloseSteps[pw.at] IN
       /\ step = "storage_state" => pw.context = "live"
       /\ pw' = [pw EXCEPT
                    !.at = pw.at + 1,
                    !.stored = IF step = "storage_state" THEN TRUE ELSE pw.stored,
                    !.ops = IF step = "storage_state" THEN Append(pw.ops, "write") ELSE pw.ops,
                    !.context = IF step = "context_close" THEN "closed" ELSE pw.context,
                    !.browser = IF step = "browser_close" THEN "closed" ELSE pw.browser,
                    !.runtime = IF step = "aexit" THEN "closed" ELSE pw.runtime]
    /\ UNCHANGED <<sessionFrame, pc, exc, send_session, sessions>>

\* lines 383-384, 387-388, 391-392, 395-396: the next step of the close raises; the
\* handler swallows what it covers and the close goes on with the step after it
CloseStepFails ==
    /\ pw.call = "close"
    /\ pw.at <= Len(CloseSteps)
    /\ \E cls \in AutomationErrors \cup {"OSError"} :
          LET step == CloseSteps[pw.at]
              failed(state) == IF state = "live" THEN "close_failed" ELSE state
          IN
          /\ cls = "OSError" => step = "storage_state"
          /\ IF CloseCaught(cls)
             THEN pw' = [pw EXCEPT
                            !.at = pw.at + 1,
                            !.failures = pw.failures \cup {<<pw.closes + 1, step>>},
                            !.context = IF step = "context_close"
                                        THEN failed(pw.context) ELSE pw.context,
                            !.browser = IF step = "browser_close"
                                        THEN failed(pw.browser) ELSE pw.browser,
                            !.runtime = IF step = "aexit"
                                        THEN failed(pw.runtime) ELSE pw.runtime]
             ELSE pw' = [pw EXCEPT !.call = "close_raised", !.error = cls]
    /\ UNCHANGED <<sessionFrame, pc, exc, send_session, sessions>>

\* the close returns; the first one returns into the finally block of run, from
\* which the exception (if any) goes on
CloseReturn ==
    /\ pw.call = "close"
    /\ pw.at = Len(CloseSteps) + 1
    /\ pw' = [pw EXCEPT !.call = "none", !.at = "", !.closes = pw.closes + 1]
    /\ sessions' = close_outlook_send_session(sessions, send_session)
    /\ pc' = IF pc = "finally" THEN (IF exc # "" THEN "raised" ELSE "after") ELSE pc
    /\ UNCHANGED <<sessionFrame, exc, send_session>>

NextSession ==
    \/ OpenCall
    \/ OpenLaunch
    \/ OpenContext
    \/ OpenPage
    \/ OpenGoto
    \/ OpenCheckLogin
    \/ OpenLoginWait
    \/ OpenSnapshot
    \/ OpenReturn
    \/ OpenExcept
    \/ SessionSend
    \/ SessionFor
    \/ FinallyNoSession
    \/ CloseCall
    \/ CloseAgain
    \/ CloseStepOk
    \/ CloseStepFails
    \/ CloseReturn

SpecSession == InitSession /\ [][NextSession]_vars

-----------------------------------------------------------------------------
(* The compose form: _fill_and_send step by step (send.py lines 120-284).  *)

\* bound: embedded frames of the compose page whose URL holds "outlook"
MaxFrames == 1
\* bound: attachment paths given to one send
MaxAttachments == 2

\* the attachment lists of a send; an entry tells whether the file exists
AttachmentLists ==
    UNION {[1..n -> BOOLEAN] : n \in 0..MaxAttachments}

\* _compose_roots: the page, then every eligible frame
NumRoots(f) == 1 + f.frames

\* entries of a step's fallback chain on one root: TO_SELECTORS, the subject
\* locator, body_selectors, attach_btn_selectors, the role lookup and the five
\* selectors of the send button; the subject fallback is one more entry, on the
\* page only
ChainLength(step) ==
    CASE step = "to"               -> 12
      [] step = "subject"          -> 1
      [] step = "subject_fallback" -> 1
      [] step = "body"             -> 4
      [] step = "attach"           -> 4
      [] step = "send_button"      -> 6

\* browse_menu_labels
NumLabels == Len(<<"Browse this computer", "Attach a file", "Browse", "Upload from this device">>)

\* the steps that resolve an element through a fallback chain
ResolutionSteps == {"to", "subject", "subject_fallback", "body", "send_button"}

\* the step an error message of _fill_and_send names
StepNamed(step) == IF step = "subject_fallback" THEN "subject" ELSE step

\* the roots a step's chain goes over
RootsOf(f, step) == IF step = "subject_fallback" THEN 1 ELSE NumRoots(f)

\* entries of the whole chain of the step named by an error message
ChainTotal(f, name) ==
    IF name = "subject"
    THEN NumRoots(f) * ChainLength("subject") + ChainLength("subject_fallback")
    ELSE NumRoots(f) * ChainLength(name)

\* the call ends with an exception of class cls; name is the step the message
\* names, "" when the exception is not one of _fill_and_send's own
Raise(f, name, cls) == [f EXCEPT !.step = "raised", !.at = f.step, !.error = name, !.cls = cls]

\* the chain has another entry after the current one
ChainLeft(f) == f.sel < ChainLength(f.step) \/ f.root < RootsOf(f, f.step)

\* mutant of NextEntry: a selector is tried on every root before the next selector
NextEntryAcrossRoots(f) ==
    IF f.root < RootsOf(f, f.step)
    THEN [f EXCEPT !.root = f.root + 1]
    ELSE [f EXCEPT !.root = 1, !.sel = f.sel + 1]

\* the next entry of the chain: the next selector of this root, else the first
\* selector of the next root
NextEntry(f) ==
    IF f.sel < ChainLength(f.step)
    THEN [f EXCEPT !.sel = f.sel + 1]
    ELSE [f EXCEPT !.root = f.root + 1, !.sel = 1]

\* a step starts at the first entry of its chain
AtStep(f, step) == [f EXCEPT !.step = step, !.root = 1, !.sel = 1, !.tried = <<>>]

\* mutant of on_exhausted: the check of the empty result is missing, and the use of
\* the missing element fails with an error that names no step
OnExhaustedUnnamed(f) == Raise(f, "", "AttributeError")

\* lines 133-136, 153-158, 181-182, 281-282: no entry of the chain resolved
on_exhausted(f) ==
    IF f.step = "subject"
    THEN AtStep(f, "subject_fallback")
    ELSE Raise(f, StepNamed(f.step), "RuntimeError")

\* the action that follows the resolution of a step's element
ActionOf(step) ==
    CASE step = "to"               -> "to_fill"
      [] step = "subject"          -> "subject_fill"
      [] step = "subject_fallback" -> "subject_fill"
      [] step = "body"             -> "body_fill"
      [] step = "send_button"      -> "send_click"

InitFill ==
    /\ pc = "fill"
    /\ ApartAtRest
    /\ cfg = [startups |-> None, max_startups |-> None, confirm_before_send |-> FALSE,
              has_callback |-> FALSE, headless |-> TRUE]
    /\ file = File("absent", EmptyDict)
    /\ clock = 0
    /\ emailed = EmptyDict
    /\ raw_list = <<>>
    /\ batch = <<>>
    /\ idx = 0
    /\ email = None
    /\ sent_so_far = 0
    /\ send_session = 1
    /\ sessions = <<[open |-> TRUE, closeCalls |-> 0]>>
    /\ result = EmptyResult
    /\ exc = ""
    /\ round = 1
    /\ log = <<>>
    /\ iters = <<>>
    /\ loaded = NotLoaded
    /\ page = AllOk
    /\ snd = Idle
    /\ pw = NoSession
    /\ \E frames \in 0..MaxFrames, attachments \in AttachmentLists :
          fill = [step |-> "to", root |-> 1, sel |-> 1, frames |-> frames,
                  attachments |-> attachments, k |-> 1, pass |-> 0, label |-> 0,
                  att |-> <<>>, filled |-> {}, activated |-> FALSE, timeouts |-> 0,
                  tried |-> <<>>, at |-> "", error |-> "", cls |-> ""]

\* variables _fill_and_send leaves alone
fillFrame == <<runVars, file, loaded, page, snd, pw, apart>>

\* lines 113-116, 148-152, 156-158, 174-178, 260-264, 274-278: wait_for times out
\* on the current entry of the chain
EntryTimeout(step) ==
    /\ fill.step = step
    /\ LET f == [fill EXCEPT !.timeouts = fill.timeouts + 1,
                             !.tried = Append(fill.tried, <<fill.root, fill.sel>>)] IN
       fill' = IF ChainLeft(fill) THEN NextEntry(f) ELSE on_exhausted(f)
    /\ UNCHANGED fillFrame

\* the current entry of the chain resolves a visible element
EntryVisible(step) ==
    /\ fill.step = step
    /\ fill' = [fill EXCEPT !.step = ActionOf(step), !.timeouts = 0,
                             !.tried = Append(fill.tried, <<fill.root, fill.sel>>)]
    /\ UNCHANGED fillFrame

\* the step after a field is filled
AfterField(f) ==
    CASE f.step = "to_fill"      -> AtStep(f, "subject")
      [] f.step = "subject_fill" -> AtStep(f, "body")
      [] f.step = "body_fill"    -> IF Len(f.attachments) > 0
                                    THEN [f EXCEPT !.step = "attach_path"]
                                    ELSE [f EXCEPT !.step = "dismiss"]

\* the field an action fills
FieldOf(step) ==
    CASE step = "to_fill"      -> "to"
      [] step = "subject_fill" -> "subject"
      [] step = "body_fill"    -> "body"

\* lines 137, 159, 183-184: the resolved field is filled, or the fill raises
FieldFill(step) ==
    /\ fill.step = step
    /\ \/ fill' = AfterField([fill EXCEPT !.filled = fill.filled \cup {FieldOf(step)}])
       \/ \E cls \in AutomationErrors : fill' = Raise(fill, "", cls)
    /\ UNCHANGED fillFrame


\* lines 107-117 and 132-136: the recipient field
ToTimeout == EntryTimeout("to")
ToVisible == EntryVisible("to")
\* line 137
ToFill == FieldFill("to_fill")

\* lines 141-152: the subject field
SubjectTimeout == EntryTimeout("subject")
SubjectVisible == EntryVisible("subject")
\* lines 153-158: the second input of the page as a last resort
SubjectFallbackTimeout == EntryTimeout("subject_fallback")
SubjectFallbackVisible == EntryVisible("subject_fallback")
\* line 159
SubjectFill == FieldFill("subject_fill")

\* lines 163-182: the body field
BodyTimeout == EntryTimeout("body")
BodyVisible == EntryVisible("body")
\* lines 183-184
BodyFill == FieldFill("body_fill")

\* line 195 when every path was gone through
AttachDone ==
    /\ fill.step = "attach_path"
    /\ fill.k > Len(fill.attachments)
    /\ fill' = [fill EXCEPT !.step = "dismiss"]
    /\ UNCHANGED fillFrame

\* lines 196-199: the file of the next path does not exist
AttachMissing ==
    /\ fill.step = "attach_path"
    /\ fill.k <= Len(fill.attachments)
    /\ ~fill.attachments[fill.k]
    /\ fill' = [fill EXCEPT !.att = Append(fill.att, "missing"), !.k = fill.k + 1]
    /\ UNCHANGED fillFrame

\* lines 196-202: the file exists; on to the attach button
AttachStart ==
    /\ fill.step = "attach_path"
    /\ fill.k <= Len(fill.attachments)
    /\ fill.attachments[fill.k]
    /\ fill' = AtStep(fill, "attach")
    /\ UNCHANGED fillFrame

\* mutant of AttachCaught: no handler around the attach steps
AttachCaughtNothing(where, cls) == FALSE

\* the handlers of the attach steps: line 239 around the attach button (where = 0)
\* and line 220 in the menuitem pass (where = 1) cover timeouts only, line 235 in
\* the text pass (where = 2) covers every Exception
AttachCaught(where, cls) == where = 2 \/ cls = "PlaywrightTimeout"

\* lines 243-244: the path is given up, the loop goes on with the next one
NotAttached(f) ==
    [f EXCEPT !.att = Append(f.att, "failed"), !.k = f.k + 1, !.step = "attach_path",
              !.pass = 0, !.label = 0]

\* lines 201-202, 239-242: the next attach button selector, if there is one
NextAffordance(f) ==
    LET g == [f EXCEPT !.step = "attach", !.pass = 0, !.label = 0] IN
    IF ChainLeft(g) THEN NextEntry(g) ELSE NotAttached(g)

\* lines 203-207: wait for the attach button and click it
AttachAffordance ==
    /\ fill.step = "attach"
    /\ \/ fill' = [fill EXCEPT !.step = "menu", !.pass = 1, !.label = 1]
       \/ \E cls \in AutomationErrors :
             fill' = IF AttachCaught(0, cls) THEN NextAffordance(fill)
                     ELSE Raise(fill, "", cls)
    /\ UNCHANGED fillFrame

\* lines 209-236: one label of one pass: wait for the menu entry, click it, take the
\* file chooser and give it the file
AttachMenu ==
    /\ fill.step = "menu"
    /\ \/ fill' = [fill EXCEPT !.att = Append(fill.att, "attached"), !.k = fill.k + 1,
                               !.step = "attach_path", !.pass = 0, !.label = 0]
       \/ \E cls \in AutomationErrors :
             fill' = IF ~AttachCaught(fill.pass, cls) THEN Raise(fill, "", cls)
                     ELSE IF fill.label < NumLabels
                          THEN [fill EXCEPT !.label = fill.label + 1]
                     ELSE IF fill.pass = 1
                          THEN [fill EXCEPT !.pass = 2, !.label = 1]
                     ELSE NextAffordance(fill)
    /\ UNCHANGED fillFrame

\* lines 248-253: a click into the body closes any open menu; a timeout is passed over
Dismiss ==
    /\ fill.step = "dismiss"
    /\ \/ fill' = AtStep(fill, "send_button")
       \/ fill' = Raise(fill, "", "PlaywrightError")
    /\ UNCHANGED fillFrame

\* lines 256-282: the send button
SendButtonTimeout == EntryTimeout("send_button")
SendButtonVisible == EntryVisible("send_button")

\* lines 283-284: the send button is clicked
SendClick ==
    /\ fill.step = "send_click"
    /\ \/ fill' = [fill EXCEPT !.step = "done", !.activated = TRUE]
       \/ \E cls \in AutomationErrors : fill' = Raise(fill, "", cls)
    /\ UNCHANGED fillFrame

NextFill ==
    \/ ToTimeout
    \/ ToVisible
    \/ ToFill
    \/ SubjectTimeout
    \/ SubjectVisible
    \/ SubjectFallbackTimeout
    \/ SubjectFallbackVisible
    \/ SubjectFill
    \/ BodyTimeout
    \/ BodyVisible
    \/ BodyFill
    \/ AttachDone
    \/ AttachMissing
    \/ AttachStart
    \/ AttachAffordance
    \/ AttachMenu
    \/ Dismiss
    \/ SendButtonTimeout
    \/ SendButtonVisible
    \/ SendClick

SpecFill == InitFill /\ [][NextFill]_vars

-----------------------------------------------------------------------------
(* Deduplication of candidates on their own: _discover_startups and        *)
(* load_startups_from_list_file (manager.py) applied to bounded inputs.    *)

\* bound: candidates in one answer of the discovery agent
MaxItems == 3
\* bound: lines in one list file
MaxLines == 3

\* [a-zA-Z0-9] on the characters of the model
IsAlnum(ch) == ch \in {"a", "b", "c", "d", "i", "m", "n", "o", "x", "A", "B", "C", "N"}

\* the three character classes of EMAIL_PATTERN (line 26)
InClass(class, ch) ==
    CASE class = "local" -> IsAlnum(ch) \/ ch \in {"_", ".", "+", "-"}
      [] class = "label" -> IsAlnum(ch) \/ ch = "-"
      [] class = "tail"  -> IsAlnum(ch) \/ ch \in {"-", "."}

\* length of the longest run of characters of the class that starts at position i
RECURSIVE RunLength(_, _, _)
RunLength(s, i, class) ==
    IF i > Len(s) \/ ~InClass(class, s[i]) THEN 0
    ELSE 1 + RunLength(s, i + 1, class)

\* EMAIL_PATTERN matched at position i: the position of the last character of the
\* match, 0 for no match.  Each greedy run is followed by a character outside its
\* class, so the longest run is the only one that can match.
MatchAt(s, i) ==
    LET local == RunLength(s, i, "local")
        at    == i + local
        label == RunLength(s, at + 1, "label")
        dot   == at + 1 + label
        tail  == RunLength(s, dot + 1, "tail")
    IN IF /\ local > 0
          /\ at <= Len(s) /\ s[at] = "@"
          /\ label > 0
          /\ dot <= Len(s) /\ s[dot] = "."
          /\ tail > 0
       THEN dot + tail ELSE 0

\* EMAIL_PATTERN.search(s): the leftmost match, as an optional string
EMAIL_PATTERN_search(s) ==
    LET starts == {i \in 1..Len(s) : MatchAt(s, i) > 0} IN
    IF starts = {} THEN None
    ELSE LET i == CHOOSE k \in starts : \A j \in starts : k <= j
         IN Some(SubSeq(s, i, MatchAt(s, i)))

\* manager.py _parse_email_from_field
_parse_email_from_field(text) ==
    IF text = <<>> \/ Strip(text) = <<>> THEN None
    ELSE LET m == EMAIL_PATTERN_search(Strip(text)) IN
         IF m # None THEN Some(normalize_email(m[1])) ELSE None

\* "." in token and " " not in token (line 114)
LooksLikeDomain(token) ==
    /\ \E i \in 1..Len(token) : token[i] = "."
    /\ \A i \in 1..Len(token) : token[i] # " "

\* lines 107-121: one line of the file, given as the pieces between its "|"
\* characters, as (name, domain, email); one_liner plays no part in the result's
\* identity and is left out
ParseLine(line) ==
    LET parts == [i \in 1..Len(line) |-> Strip(line[i])]
        token == parts[1]
        nd == IF Len(parts) >= 2 THEN <<parts[1], parts[2]>>
              ELSE IF LooksLikeDomain(token) THEN <<token, token>>
              ELSE <<token, <<>>>>
        parsed_email == IF Len(parts) >= 4 /\ parts[4] # <<>>
                        THEN _parse_email_from_field(parts[4]) ELSE None
    IN [name |-> nd[1], domain |-> nd[2], email |-> parsed_email]

\* line.strip() is empty (lines 104-106): a single blank piece
BlankLine(line) == Len(line) = 1 /\ Strip(line[1]) = <<>>

\* (name or "").strip().lower() (line 123)
NormalizedName(name) == Lower(Strip(name))

\* lines 103-142: the loop over the lines with its two seen sets
RECURSIVE ListLoop(_, _, _)
ListLoop(lines, seen_domain, seen_name) ==
    IF lines = <<>> THEN <<>>
    ELSE IF BlankLine(Head(lines)) THEN ListLoop(Tail(lines), seen_domain, seen_name)
    ELSE LET row == ParseLine(Head(lines))
             domain_n == _normalize_domain(row.domain)
             name_n == NormalizedName(row.name)
             key == IF domain_n # <<>> THEN domain_n ELSE name_n
         IN IF key = <<>> THEN ListLoop(Tail(lines), seen_domain, seen_name)
            ELSE IF domain_n # <<>> /\ domain_n \in seen_domain
                 THEN ListLoop(Tail(lines), seen_domain, seen_name)
            ELSE IF domain_n = <<>> /\ name_n \in seen_name
                 THEN ListLoop(Tail(lines), seen_domain, seen_name)
            ELSE <<StartupItem(IF row.name # <<>> THEN row.name ELSE key,
                               row.domain, row.email)>>
                 \o (IF domain_n # <<>>
                     THEN ListLoop(Tail(lines), seen_domain \cup {domain_n}, seen_name)
                     ELSE ListLoop(Tail(lines), seen_domain, seen_name \cup {name_n}))

\* manager.py load_startups_from_list_file on an existing file
load_startups_from_list_file(lines) == ListLoop(lines, {}, {})

\* sequences of at most n elements of S
SeqUpTo(S, n) == UNION {[1..k -> S] : k \in 0..n}

\* candidates the discovery agent may name: spellings of two names and two domains,
\* and candidates without a domain
DiscoveredItems ==
    { StartupItem(name, domain, None) :
        name \in {<<"n">>, <<"N", " ">>, <<"m">>},
        domain \in {<<>>, <<" ">>, <<"a">>, <<"A", " ">>, <<"b">>} }

\* lines of a list file, cut at "|"
FileLines ==
    { << <<" ">> >>,
      << <<"n">> >>,
      << <<" ", "N">> >>,
      << <<"n", " ", ".">> >>,
      << <<"a", ".", "b">> >>,
      << <<"m", " ">>, <<"A", ".", "b", " ">> >>,
      << <<>>, <<"c">> >>,
      << <<>>, <<>> >>,
      << <<"n">>, <<>>, <<"o">> >>,
      << <<"m">>, <<"c">>, <<>>, <<" ", "x", "@", "c", ".", "d", ".">> >>,
      << <<"o">>, <<"d">>, <<>>, <<"x", "@", "d">> >> }

\* variables a single call leaves alone
callFrame == <<runVars, file, loaded, page, snd, pw, fill, report, procs>>

\* nothing but the call: run, the store and the send layer are at rest
OnlyCall ==
    /\ pc = "call"
    /\ cfg = [startups |-> None, max_startups |-> None, confirm_before_send |-> FALSE,
              has_callback |-> FALSE, headless |-> TRUE]
    /\ file = File("absent", EmptyDict)
    /\ clock = 0
    /\ emailed = EmptyDict
    /\ raw_list = <<>>
    /\ batch = <<>>
    /\ idx = 0
    /\ email = None
    /\ sent_so_far = 0
    /\ send_session = 0
    /\ sessions = <<>>
    /\ result = EmptyResult
    /\ exc = ""
    /\ round = 0
    /\ log = <<>>
    /\ iters = <<>>
    /\ loaded = NotLoaded
    /\ page = AllOk
    /\ snd = Idle
    /\ pw = NoSession
    /\ fill = NoFill
    /\ report = NoReport
    /\ procs = NoProcs

\* a call about to be made with its argument
Pending(fn, arg) == [fn |-> fn, arg |-> arg, done |-> FALSE, value |-> <<>>]

InitDedup ==
    /\ OnlyCall
    /\ call \in {Pending("_discover_startups", out) : out \in SeqUpTo(DiscoveredItems, MaxItems)}
              \cup {Pending("load_startups_from_list_file", lines) :
                        lines \in SeqUpTo(FileLines, MaxLines)}

\* _discover_startups returns (the agent's answer is the argument)
Discover ==
    /\ call.fn = "_discover_startups" /\ ~call.done
    /\ call' = [call EXCEPT !.done = TRUE, !.value = _discover_startups(call.arg)]
    /\ UNCHANGED callFrame

\* load_startups_from_list_file returns
LoadList ==
    /\ call.fn = "load_startups_from_list_file" /\ ~call.done
    /\ call' = [call EXCEPT !.done = TRUE, !.value = load_startups_from_list_file(call.arg)]
    /\ UNCHANGED callFrame

NextDedup == Discover \/ LoadList

SpecDedup == InitDedup /\ [][NextDedup]_vars

-----------------------------------------------------------------------------
(* normalize_email (outlook/email_util.py) applied to bounded strings.     *)

\* bound: length of the strings normalized
MaxLen == 4

\* the characters of the strings normalized: a letter, whitespace, punctuation
EmailChars == {"a", " ", ".", "\""}

InitNormalize ==
    /\ OnlyCall
    /\ call \in {Pending("normalize_email", s) : s \in SeqUpTo(EmailChars, MaxLen)}

\* normalize_email returns
Normalize ==
    /\ call.fn = "normalize_email" /\ ~call.done
    /\ call' = [call EXCEPT !.done = TRUE, !.value = normalize_email(call.arg)]
    /\ UNCHANGED callFrame

NextNormalize == Normalize

SpecNormalize == InitNormalize /\ [][NextNormalize]_vars

-----------------------------------------------------------------------------
(* Opening the compose surface: _click_new_mail (send.py, lines 54-79)     *)
(* step by step on a page where some of its selectors resolve.             *)

\* the selectors of the for loop (lines 57-64), by position
NewMailSelectors == 1..6

\* the call on a page where the selectors of visible resolve a visible element in
\* time: sel is the selector the loop is at, btn the selector whose locator btn
\* holds (0 for None), waited the selector whose wait succeeded, timeouts the number
\* of waits that timed out, clicked the selector btn.click() was called on
NewMailCall(visible) ==
    [fn |-> "_click_new_mail", visible |-> visible, at |-> "wait", sel |-> 1, btn |-> 0,
     waited |-> 0, timeouts |-> 0, clicked |-> 0, error |-> "", value |-> ""]

InitNewMail ==
    /\ OnlyCall
    /\ call \in {NewMailCall(visible) : visible \in SUBSET NewMailSelectors}

\* lines 65-70: the locator is assigned, then the wait succeeds (break) or times out
\* (continue)
NewMailWait ==
    /\ call.fn = "_click_new_mail" /\ call.at = "wait"
    /\ call' = IF call.sel \in call.visible
               THEN [call EXCEPT !.btn = call.sel, !.waited = call.sel, !.at = "check"]
               ELSE IF call.sel + 1 \in NewMailSelectors
                    THEN [call EXCEPT !.btn = call.sel, !.sel = call.sel + 1,
                                      !.timeouts = call.timeouts + 1]
                    ELSE [call EXCEPT !.btn = call.sel, !.at = "check",
                                      !.timeouts = call.timeouts + 1]
    /\ UNCHANGED callFrame

\* lines 66-67: the wait raises an error that is not a timeout
NewMailWaitRaises ==
    /\ call.fn = "_click_new_mail" /\ call.at = "wait"
    /\ call' = [call EXCEPT !.btn = call.sel, !.at = "raised", !.error = "PlaywrightError"]
    /\ UNCHANGED callFrame

\* lines 71-72: the test of btn after the loop
NewMailCheck ==
    /\ call.fn = "_click_new_mail" /\ call.at = "check"
    /\ call' = IF call.btn = 0
               THEN [call EXCEPT !.at = "raised",
                                 !.error = "Could not find 'New mail' button"]
               ELSE [call EXCEPT !.at = "click"]
    /\ UNCHANGED callFrame

\* lines 74-79: btn.click() inside expect_popup; a popup is returned, and a timeout
\* of expect_popup or of the click itself returns the page
NewMailClick ==
    /\ call.fn = "_click_new_mail" /\ call.at = "click"
    /\ \E outcome \in {"popup", "no_popup", "click_timeout"} :
          call' = [call EXCEPT !.clicked = call.btn, !.at = "returned",
                               !.value = IF outcome = "popup" THEN "popup" ELSE "page"]
    /\ UNCHANGED callFrame

\* line 76: the click raises an error that is not a timeout
NewMailClickRaises ==
    /\ call.fn = "_click_new_mail" /\ call.at = "click"
    /\ call' = [call EXCEPT !.clicked = call.btn, !.at = "raised",
                            !.error = "PlaywrightError"]
    /\ UNCHANGED callFrame

NextNewMail ==
    \/ NewMailWait
    \/ NewMailWaitRaises
    \/ NewMailCheck
    \/ NewMailClick
    \/ NewMailClickRaises

SpecNewMail == InitNewMail /\ [][NextNewMail]_vars

-----------------------------------------------------------------------------
(* Properties of run.                                                      *)

\* emailed, raw_list and batch are those of the iteration numbered round
InIteration ==
    \/ pc \in {"for", "draft", "confirm", "open", "send", "finally", "after", "returned"}
    \/ pc = "loop" /\ round >= 1

\* the candidate's trimmed, lowercased domain is a key of the mapping loaded for this iteration
AlreadyContacted(c) == DictHas(emailed, Lower(Strip(c.domain)))

\* names of the already contacted members of raw_list, in list order
ContactedNames ==
    LET F[i \in 0..Len(raw_list)] ==
            IF i = 0 THEN <<>>
            ELSE IF AlreadyContacted(raw_list[i])
                 THEN Append(F[i - 1], raw_list[i].name) ELSE F[i - 1]
    IN F[Len(raw_list)]

\* the operations made for one candidate of a batch
CandidateOps == {"find", "normalize", "draft", "confirm", "open", "send"}

\* positions of log holding an event of iteration r
EventsOf(r) == {n \in 1..Len(log) : log[n].rnd = r}

\* the step just taken added exactly the event (op, res) to log
Logged(op, res) ==
    /\ Len(log') = Len(log) + 1
    /\ log'[Len(log')].op = op
    /\ log'[Len(log')].res = res

\* C1: in every iteration each candidate whose normalized domain is a key of the
\* mapping loaded at the start of the iteration is appended to
\* skipped_already_emailed (in list order), is left out of the batch, and no
\* find-email, draft, confirm or send is made for it in that iteration.
C1_AlreadyContactedSkipped ==
    InIteration =>
        LET sk == result.skipped_already_emailed
            k == Len(ContactedNames)
        IN /\ Len(sk) >= k
           /\ SubSeq(sk, Len(sk) - k + 1, Len(sk)) = ContactedNames
           /\ \A i \in 1..Len(raw_list) :
                 AlreadyContacted(raw_list[i]) =>
                    /\ \A j \in 1..Len(batch) : batch[j] # raw_list[i]
                    /\ \A n \in EventsOf(round) :
                          log[n].op \in CandidateOps => log[n].cand # raw_list[i]

\* an iteration that skipped a contacted candidate under another spelling of its
\* domain and sent to another candidate has returned
C1_Witness ==
    /\ pc = "returned"
    /\ \E i \in 1..Len(raw_list) :
          AlreadyContacted(raw_list[i]) /\ raw_list[i].domain # Lower(Strip(raw_list[i].domain))
    /\ \E n \in EventsOf(round) : log[n].op = "send" /\ log[n].res = "true"

\* number of send events with outcome res in the whole log
SendCount(res) == Cardinality({n \in 1..Len(log) : log[n].op = "send" /\ log[n].res = res})

\* the batch of iteration round was gone through to its end without an exception
BatchCompleted ==
    \/ pc \in {"after", "returned"} /\ iters # <<>> /\ batch # <<>>
    \/ pc = "loop" /\ round >= 1
    \/ pc = "finally" /\ exc = ""

\* position j of the current batch got an outcome of its own
HasOutcome(j) ==
    \/ \E n \in EventsOf(round) :
          /\ log[n].i = j
          /\ \/ log[n].op = "find" /\ log[n].res = "none"
             \/ log[n].op = "normalize" /\ log[n].res = "empty"
             \/ log[n].op = "confirm" /\ log[n].res = "no"
             \/ log[n].op = "send" /\ log[n].res \in {"true", "false"}
    \/ /\ cfg.confirm_before_send /\ ~cfg.has_callback
       /\ \E n \in EventsOf(round) : log[n].i = j /\ log[n].op = "draft" /\ log[n].res = "ok"

C2_Step ==
    (pc = "send" /\ Logged("send", "false")) =>
        /\ result'.failed_send = Append(result.failed_send, email[1])
        /\ result'.sent = result.sent
        /\ file' = file
        /\ pc' = "for" /\ idx' = idx + 1 /\ batch' = batch
        /\ send_session' = send_session /\ sessions' = sessions
        /\ sessions[send_session].open
        /\ exc' = exc

C2_Later ==
    \A n \in EventsOf(round) :
        (log[n].op = "send" /\ log[n].res = "false") =>
            \* the sends of the iteration share its one session
            /\ Cardinality({m \in EventsOf(round) : log[m].op = "open"}) = 1
            /\ \A m \in EventsOf(round) : log[m].op = "close" => m > n
            /\ BatchCompleted => \A j \in (log[n].i + 1)..Len(batch) : HasOutcome(j)

\* C2: a failed send appends the recipient to failed_send, writes no dedup entry,
\* leaves the session open, and the loop goes on with the next candidate: once the
\* batch is gone through, every later candidate has its own outcome, and all sends
\* of the iteration used the one session.
C2_SendFailureIsolated ==
    /\ [](C2_Later /\ Len(result.failed_send) = SendCount("false")
                   /\ Len(result.sent) = SendCount("true"))
    /\ [][C2_Step]_vars

\* a batch in which a send failed and a later candidate was sent to
C2_Witness ==
    /\ pc = "after"
    /\ \E n, m \in EventsOf(round) :
          /\ log[n].op = "send" /\ log[n].res = "false"
          /\ log[m].op = "send" /\ log[m].res = "true"
          /\ log[m].i > log[n].i

C3_Step ==
    (/\ pc = "confirm" /\ pc' # "confirm"
     /\ cfg.confirm_before_send
     /\ ~cfg.has_callback \/ Logged("confirm", "no")) =>
        /\ result' = result
        /\ result.drafts # <<>>
        /\ result.drafts[Len(result.drafts)] = [startup |-> startup, to_email |-> email[1]]
        /\ file' = file
        /\ sessions' = sessions /\ send_session' = send_session
        /\ pc' = "for" /\ idx' = idx + 1

C3_NoSend ==
    /\ \A n \in 1..Len(log) :
          (log[n].op = "confirm" /\ log[n].res = "no") =>
              \A m \in 1..Len(log) :
                  (log[m].rnd = log[n].rnd /\ log[m].i = log[n].i)
                      => log[m].op \notin {"open", "send"}
    /\ (cfg.confirm_before_send /\ ~cfg.has_callback) =>
          /\ \A n \in 1..Len(log) : log[n].op \notin {"open", "send"}
          /\ sessions = <<>> /\ result.sent = <<>> /\ result.failed_send = <<>>

\* C3: when confirmation is required and the callback declines or is missing, the
\* draft stays recorded in drafts, nothing is appended to sent or failed_send, no
\* session is opened or used for the candidate, and the store is not written.
C3_DeclineOnlyDrafts == []C3_NoSend /\ [][C3_Step]_vars

\* a declined candidate in a batch in which another candidate was sent to
C3_Witness ==
    /\ pc = "returned"
    /\ \E n, m \in EventsOf(round) :
          /\ log[n].op = "confirm" /\ log[n].res = "no"
          /\ log[m].op = "send" /\ log[m].res = "true"
    /\ Len(result.drafts) > Len(result.sent) + Len(result.failed_send)

\* C4: every session run opened is closed exactly once by the time run returns or
\* raises, and never more than once.
C4_SessionClosedOnce ==
    /\ \A s \in 1..Len(sessions) :
          /\ sessions[s].closeCalls <= 1
          /\ sessions[s].open => sessions[s].closeCalls = 0
    /\ pc \in {"returned", "raised"} =>
          \A s \in 1..Len(sessions) : ~sessions[s].open /\ sessions[s].closeCalls = 1

\* run raised out of the draft call of a later candidate, after a send that failed
C4_Witness ==
    /\ pc = "raised"
    /\ Len(sessions) = 1
    /\ \E n, m \in EventsOf(round) :
          /\ log[n].op = "send" /\ log[n].res = "false"
          /\ log[m].op = "draft" /\ log[m].res = "raised" /\ m > n

\* the sessions that are open
OpenSessions == {s \in 1..Len(sessions) : sessions[s].open}

\* C5: at most one send session is open at any time, none is open once run has
\* returned or raised, and a session is only opened when all earlier ones are closed.
C5_OneSessionAtATime ==
    /\ Cardinality(OpenSessions) <= 1
    /\ OpenSessions \subseteq {Len(sessions)}
    /\ pc \in {"returned", "raised"} => OpenSessions = {}
    /\ \A n, m \in 1..Len(log) :
          (n < m /\ log[n].op = "open" /\ log[n].res = "ok"
                 /\ log[m].op = "open" /\ log[m].res = "ok") =>
              \E c \in (n + 1)..(m - 1) : log[c].op = "close"

\* a second session is open in a later iteration, the first one closed
C5_Witness ==
    /\ Len(sessions) = 2
    /\ sessions[2].open /\ ~sessions[1].open
    /\ round = 2

\* the candidates the for loop has reached so far, in any iteration
Processed == {log[n].cand : n \in {m \in 1..Len(log) : log[m].i >= 1}}

\* the members of raw_list that are not already contacted, in list order
Eligible ==
    LET F[i \in 0..Len(raw_list)] ==
            IF i = 0 THEN <<>>
            ELSE IF AlreadyContacted(raw_list[i])
                 THEN F[i - 1] ELSE Append(F[i - 1], raw_list[i])
    IN F[Len(raw_list)]

\* a cap of at least one is set
Capped == cfg.max_startups # None /\ cfg.max_startups[1] >= 1

\* successful sends made before the current iteration began
SentBefore ==
    sent_so_far - Cardinality({n \in EventsOf(round) : log[n].op = "send" /\ log[n].res = "true"})

C7_Step ==
    /\ file' # file => (pc = "send" /\ Logged("send", "true"))
    /\ (pc = "send" /\ Logged("send", "true")) =>
          /\ file'.kind = "dict"
          /\ DictHas(file'.data, Lower(Strip(startup.domain)))
          /\ result'.sent = Append(result.sent, email[1])
          /\ pc' = "for" /\ idx' = idx + 1

C7_Stored ==
    \A n \in 1..Len(log) :
        (log[n].op = "send" /\ log[n].res = "true") =>
            /\ file.kind = "dict"
            /\ DictHas(file.data, Lower(Strip(log[n].cand.domain)))

-----------------------------------------------------------------------------
(* Properties of the dedup store.                                          *)

\* the record operations that completed
RecordsOk == {n \in 1..Len(log) : log[n].op = "record" /\ log[n].res = "ok"}

RecordKey(n) == Lower(Strip(log[n].cand.domain))

\* the last completed record operation with the key of operation n
LastRecord(n) ==
    CHOOSE m \in RecordsOk :
        /\ RecordKey(m) = RecordKey(n)
        /\ \A h \in RecordsOk : RecordKey(h) = RecordKey(n) => h <= m

\* C8: after any sequence of record operations the store holds at most one entry
\* per normalized key, and for every recorded domain exactly one entry, under the
\* trimmed and lowercased key, holding the time of the last record of that key.
C8_OneEntryLastWrite ==
    file.kind = "dict" =>
        /\ \A i, j \in 1..Len(file.data) :
              i # j => Lower(Strip(file.data[i].k)) # Lower(Strip(file.data[j].k))
        /\ \A n \in RecordsOk :
              /\ Cardinality({i \in 1..Len(file.data) : file.data[i].k = RecordKey(n)}) = 1
              /\ \A i \in 1..Len(file.data) :
                    file.data[i].k = RecordKey(n) => file.data[i].v = log[LastRecord(n)].rnd

\* the same domain recorded twice under two spellings: one entry, the second time
C8_Witness ==
    /\ file.kind = "dict"
    /\ Len(file.data) = 1
    /\ \E n, m \in RecordsOk :
          /\ n < m
          /\ RecordKey(n) = RecordKey(m)
          /\ log[n].cand.domain # log[m].cand.domain
          /\ file.data[1].v = log[m].rnd
          /\ file.data[1].v > log[n].rnd

\* C9 as stated: the load never raises; it returns the mapping of a well-formed
\* mapping file and the empty mapping for every other file.
C9_LoadNeverRaises ==
    loaded.done =>
        /\ loaded.raised = ""
        /\ loaded.value = IF loaded.of.kind = "dict" THEN loaded.of.data ELSE EmptyDict

-----------------------------------------------------------------------------
(* Properties of the send layer.                                           *)

\* C10 as stated: the call never lets a failure out, and whenever a step fails,
\* attaching included, it returns False.
C10_Original ==
    /\ snd.status # "raised"
    /\ snd.status = "returned" =>
          ((\E st \in StepSet : page[st] # "ok") => ~snd.ret)

\* C10 amended: send_one_on_session never lets a failure out: whichever step raises
\* (opening the compose surface, a field, an attachment step that raises, the send
\* button, the snapshot write) it returns False, and it returns True exactly when no
\* step raised, the snapshot write included; an attachment that is skipped (missing
\* file, no chooser) is not such a failure and does not make it return False.
C10_SendNeverPropagates ==
    /\ snd.status # "raised"
    /\ snd.raised = ""
    /\ snd.status = "returned" =>
          /\ snd.ret <=> (\A st \in StepSet : ~Raises(page[st]))
          /\ snd.ret => snd.snapshot /\ snd.pos = Len(SendSteps) + 1
          /\ ~snd.ret => Raises(page[SendSteps[snd.pos]]) /\ ~snd.snapshot

\* an attachment was skipped, then the send button could not be resolved and the
\* call returned False
C10_Witness ==
    /\ snd.status = "returned"
    /\ ~snd.ret
    /\ SendSteps[snd.pos] = "send_button"
    /\ page["send_button"] = "RuntimeError"
    /\ page["attach"] = "skipped"

-----------------------------------------------------------------------------
(* Properties of the send session.                                         *)

\* the resource was acquired and a close call has been made on it since
CloseCalled(state) == state \in {"closed", "close_failed"}

\* C11: close_outlook_send_session never raises, whichever of its four steps fail:
\* every call, the second one on the same session included, goes through all four
\* steps and returns, after which a close has been called on the context, the
\* browser and the automation runtime.
C11_CloseNeverRaises ==
    /\ pw.call # "close_raised"
    /\ pw.closes >= 1 /\ pw.call = "none" =>
          /\ CloseCalled(pw.context)
          /\ CloseCalled(pw.browser)
          /\ CloseCalled(pw.runtime)
    /\ \A failure \in pw.failures :
          failure[1] <= pw.closes \/ (pw.call = "close" /\ failure[1] = pw.closes + 1)

\* a second close has returned; steps of the first one failed and all four steps
\* of the second one failed
C11_Witness ==
    /\ pw.closes = 2
    /\ pw.call = "none"
    /\ <<1, "storage_state">> \in pw.failures
    /\ <<1, "browser_close">> \in pw.failures
    /\ \A i \in 1..Len(CloseSteps) : <<2, CloseSteps[i]>> \in pw.failures

\* the session is headless and the navigation ended on a login form
HeadlessLogin == cfg.headless /\ pw.surface = "login"

\* C16: when a headless open finds a login form it raises at once: no wait for the
\* login is made and no snapshot is written, a close is called on the context, the
\* browser and the runtime before the error leaves open_outlook_send_session, no
\* session is bound, and the error leaves run's try block and run itself instead of
\* being recorded in failed_send.
C16_HeadlessLoginFatal ==
    HeadlessLogin =>
        /\ \A n \in 1..Len(pw.ops) : pw.ops[n] \notin {"wait", "write", "opened"}
        /\ pw.call \in {"open", "open_except", "none"}
        /\ pw.call = "open" => pw.at = "check_login"
        /\ pw.call = "open_except" => pw.error = "RuntimeError" /\ pc = "open"
        /\ pw.call = "none" =>
              /\ pc \in {"finally", "raised"}
              /\ exc = "RuntimeError"
              /\ CloseCalled(pw.context)
              /\ CloseCalled(pw.browser)
              /\ CloseCalled(pw.runtime)
        /\ send_session = 0
        /\ sessions = <<>>
        /\ result.failed_send = <<>>
        /\ result.sent = <<>>

\* the error of a headless open on a login form has left run
C16_Witness ==
    /\ HeadlessLogin
    /\ pc = "raised"
    /\ exc = "RuntimeError"

\* positions of ops holding op
OpsAt(op) == {n \in 1..Len(pw.ops) : pw.ops[n] = op}

\* the snapshot was read exactly when the file existed as the context was made
ReadWhenStored ==
    pw.call = "open" /\ pw.at = "new_page" => (pw.stored <=> pw.ops = <<"read">>)

\* the session was returned right after a snapshot write
WrittenAtOpen == \A n \in OpsAt("opened") : n > 1 /\ pw.ops[n - 1] = "write"

\* the first close call has passed its first step, which wrote the snapshot
\* unless it failed
WrittenAtClose ==
    \A n \in OpsAt("close") :
        (\A m \in OpsAt("close") : n <= m) /\ (pw.closes >= 1 \/ pw.at > 1) =>
            (<<1, "storage_state">> \notin pw.failures
                <=> n < Len(pw.ops) /\ pw.ops[n + 1] = "write")

\* C17 as stated: the snapshot is read at open when it exists and is written
\* after every successful open, after every send_one call and at close.
C17_Original ==
    /\ ReadWhenStored
    /\ WrittenAtOpen
    /\ \A n \in OpsAt("send:true") \cup OpsAt("send:false") : pw.ops[n - 1] = "write"
    /\ \A n \in OpsAt("close") :
          (\A m \in OpsAt("close") : n <= m) /\ (pw.closes >= 1 \/ pw.at > 1) =>
              n < Len(pw.ops) /\ pw.ops[n + 1] = "write"

\* C17 amended: the snapshot is read at open exactly when it exists, is written
\* before every successful open returns and by every send_one call that returns
\* True, while a send_one call that returns False writes none; the close called by
\* run starts with the write, and the snapshot is written there unless that step
\* fails.
C17_SnapshotWrites ==
    /\ ReadWhenStored
    /\ WrittenAtOpen
    /\ \A n \in OpsAt("send:true") : pw.ops[n - 1] = "write"
    /\ \A n \in OpsAt("send:false") : pw.ops[n - 1] # "write"
    /\ WrittenAtClose

\* a session opened on an existing snapshot made a send that failed and a send
\* that succeeded, and was closed with its snapshot written
C17_Witness ==
    /\ pw.closes = 1
    /\ pw.ops = <<"read", "write", "opened", "send:false", "write", "send:true",
                  "close", "write">>

-----------------------------------------------------------------------------
(* Further properties of run.                                              *)

\* positions of log holding an event op of candidate i of iteration r
At(op, r, i) == {n \in 1..Len(log) : log[n].op = op /\ log[n].rnd = r /\ log[n].i = i}

\* event n is the approval of its candidate: the callback's yes, or the draft when
\* no confirmation is wanted
IsApproval(n) ==
    IF cfg.confirm_before_send
    THEN log[n].op = "confirm" /\ log[n].res = "yes"
    ELSE log[n].op = "draft" /\ log[n].res = "ok"

\* C12: in each iteration open_outlook_send_session is called at most once, right
\* after the approval of a candidate whose email was resolved and whose draft was
\* built, and before every send of the iteration; an iteration without an approved
\* candidate has no open call.
C12_LazyOpen ==
    \A n \in 1..Len(log) :
        /\ log[n].op = "open" =>
              /\ n > 1
              /\ IsApproval(n - 1)
              /\ log[n - 1].rnd = log[n].rnd /\ log[n - 1].i = log[n].i
              /\ \E m \in 1..(n - 1) :
                    /\ log[m].op = "draft" /\ log[m].res = "ok"
                    /\ log[m].rnd = log[n].rnd /\ log[m].i = log[n].i
              /\ \E m \in 1..(n - 1) :
                    /\ log[m].op \in {"find", "normalize"} /\ log[m].res \in {"found", "ok"}
                    /\ log[m].rnd = log[n].rnd /\ log[m].i = log[n].i
              /\ \A m \in 1..Len(log) :
                    m # n /\ log[m].rnd = log[n].rnd =>
                        /\ log[m].op # "open"
                        /\ log[m].op = "send" => n < m
        /\ log[n].op \in {"send", "close"} =>
              \E m \in 1..(n - 1) : log[m].op = "open" /\ log[m].rnd = log[n].rnd

\* a run whose first candidate was declined opened its session for the second
\* candidate and has returned
C12_Witness ==
    /\ pc = "returned"
    /\ \E n \in 1..Len(log) : log[n].op = "open" /\ log[n].i = 2 /\ log[n].res = "ok"
    /\ \E n \in 1..Len(log) : log[n].op = "confirm" /\ log[n].i = 1 /\ log[n].res = "no"

\* the address run uses for candidate c once it has one
EmailOf(c) ==
    IF ~Falsy(c.email) /\ Strip(c.email[1]) # <<>>
    THEN normalize_email(c.email[1])
    ELSE FoundEmail(c)

\* the entries the operations logged so far add to with_email, in log order
WithEmailLog ==
    LET F[n \in 0..Len(log)] ==
            IF n = 0 THEN <<>>
            ELSE IF \/ log[n].op = "find" /\ log[n].res = "found"
                    \/ log[n].op = "normalize" /\ log[n].res = "ok"
                 THEN Append(F[n - 1], <<log[n].cand, EmailOf(log[n].cand)>>)
                 ELSE F[n - 1]
    IN F[Len(log)]

\* the entries the draft events logged so far add to drafts, in log order
DraftsLog ==
    LET F[n \in 0..Len(log)] ==
            IF n = 0 THEN <<>>
            ELSE IF log[n].op = "draft" /\ log[n].res = "ok"
                 THEN Append(F[n - 1], [startup |-> log[n].cand,
                                        to_email |-> EmailOf(log[n].cand)])
                 ELSE F[n - 1]
    IN F[Len(log)]

\* the recipients of the send events with outcome res, in log order
SendsLog(res) ==
    LET F[n \in 0..Len(log)] ==
            IF n = 0 THEN <<>>
            ELSE IF log[n].op = "send" /\ log[n].res = res
                 THEN Append(F[n - 1], EmailOf(log[n].cand))
                 ELSE F[n - 1]
    IN F[Len(log)]

\* the events of the candidates follow the batch, the four result lists follow the
\* events, each batch is a prefix of its to-process list, and the to-process list
\* is the candidate list in its order without the already contacted ones
C13_InOrder ==
    /\ \A n \in 1..Len(log) :
          log[n].i >= 1 =>
              /\ log[n].rnd <= Len(iters)
              /\ log[n].i <= Len(iters[log[n].rnd].batch)
              /\ log[n].cand = iters[log[n].rnd].batch[log[n].i]
              /\ \A m \in (n + 1)..Len(log) :
                    log[m].i >= 1 =>
                        \/ log[n].rnd < log[m].rnd
                        \/ log[n].rnd = log[m].rnd /\ log[n].i <= log[m].i
    /\ result.with_email = WithEmailLog
    /\ result.drafts = DraftsLog
    /\ result.sent = SendsLog("true")
    /\ result.failed_send = SendsLog("false")
    /\ \A r \in 1..Len(iters) :
          iters[r].batch = SubSeq(iters[r].to_process, 1, Len(iters[r].batch))
    /\ InIteration =>
          /\ Len(iters) = round
          /\ batch = iters[round].batch
          /\ iters[round].to_process = SelectSeq(raw_list, LAMBDA c : ~AlreadyContacted(c))

\* C13: within a batch the candidates are attempted in batch order: at every
\* point of run the events of the candidates follow their positions in the batch,
\* with_email, drafts, sent and failed_send are filled in that order, the batch is
\* a prefix of the to-process list, and the to-process list is the candidate list
\* in its order without the already contacted ones.
C13_BatchOrder == []C13_InOrder

\* a capped batch that is shorter than its to-process list had one send that
\* succeeded and, after it, one that failed
C13_Witness ==
    /\ iters # <<>>
    /\ Len(iters[1].batch) = 2
    /\ Len(iters[1].to_process) = 3
    /\ \E n, m \in EventsOf(1) :
          /\ log[n].op = "send" /\ log[n].res = "true" /\ log[n].i = 1
          /\ log[m].op = "send" /\ log[m].res = "false" /\ log[m].i = 2

\* number of events op in the log
Count(op) == Cardinality({n \in 1..Len(log) : log[n].op = op})

\* C14: without a cap run makes one iteration: one dedup load, at most one
\* discovery call.  With a cap run returns exactly at the end of an iteration after
\* which the sends made have reached the cap or whose batch was empty, and goes
\* round again after every other iteration.
C14_LoopStops ==
    /\ Count("load") = round
    /\ Count("discover") <= round
    /\ cfg.max_startups = None => round <= 1
    /\ pc = "returned" =>
          IF cfg.max_startups = None
          THEN round = 1
          ELSE sent_so_far >= cfg.max_startups[1] \/ batch = <<>>
    /\ pc = "loop" /\ round >= 1 =>
          /\ cfg.max_startups # None
          /\ sent_so_far < cfg.max_startups[1]
          /\ batch # <<>>

\* a capped run went round twice and returned when its second send met the cap
C14_Witness ==
    /\ pc = "returned"
    /\ round = 2
    /\ cfg.max_startups = Some(2)
    /\ sent_so_far = 2
    /\ batch # <<>>

\* the provider calls
ProviderOps == {"discover", "find", "draft"}

\* C15: once a discovery, find-email or draft call has raised, the error is on its
\* way out of run: no later candidate operation is made, only the close of the
\* open session; when the error has left run no session is open and the store
\* holds the entry of every send that succeeded before.
C15_ProviderErrorAborts ==
    /\ \A n \in 1..Len(log) :
          log[n].op \in ProviderOps /\ log[n].res = "raised" =>
              /\ pc \in {"finally", "raised"}
              /\ exc = "ProviderError"
              /\ \A m \in (n + 1)..Len(log) : log[m].op = "close"
    /\ pc = "raised" /\ exc = "ProviderError" =>
          /\ OpenSessions = {}
          /\ \A s \in 1..Len(sessions) : sessions[s].closeCalls = 1
          /\ \A n \in 1..Len(log) :
                log[n].op = "send" /\ log[n].res = "true" =>
                    /\ file.kind = "dict"
                    /\ DictHas(file.data, Lower(Strip(log[n].cand.domain)))

\* a draft call raised after a successful send of the same batch; the session was
\* closed and the error left run
C15_Witness ==
    /\ pc = "raised"
    /\ exc = "ProviderError"
    /\ \E n \in 1..Len(log) : log[n].op = "send" /\ log[n].res = "true"
    /\ \E n \in 1..Len(log) : log[n].op = "draft" /\ log[n].res = "raised"
    /\ log[Len(log)].op = "close"

\* the operations that drive the browser
BrowserOps == {"ensure", "open", "send", "close"}

\* C20: in interactive mode the session check has returned before the first dedup
\* load, discovery, find-email, draft or confirm call; in headless mode no session
\* check is made and the first browser operation is the open that follows the
\* first approval.
C20_SessionCheckFirst ==
    IF cfg.headless
    THEN /\ Count("ensure") = 0
         /\ \A n \in 1..Len(log) :
               log[n].op \in BrowserOps /\ (\A m \in 1..(n - 1) : log[m].op \notin BrowserOps) =>
                   log[n].op = "open" /\ IsApproval(n - 1)
    ELSE /\ pc # "start" => log # <<>> /\ log[1].op = "ensure"
         /\ Count("ensure") <= 1
         /\ \A n \in 1..Len(log) : log[n].op = "ensure" => n = 1

\* an interactive run whose session check failed went on to discover, draft, ask
\* and send
C20_Witness ==
    /\ ~cfg.headless
    /\ pc = "returned"
    /\ log[1].op = "ensure" /\ log[1].res = "false"
    /\ Count("discover") >= 1
    /\ \E n \in 1..Len(log) : log[n].op = "confirm" /\ log[n].res = "yes"
    /\ \E n \in 1..Len(log) : log[n].op = "send" /\ log[n].res = "true"

-----------------------------------------------------------------------------
(* Properties of the compose form.                                         *)

\* the fields filled when the step named starts
FilledBefore(name) ==
    CASE name = "to"          -> {}
      [] name = "subject"     -> {"to"}
      [] name = "body"        -> {"to", "subject"}
      [] name = "send_button" -> {"to", "subject", "body"}

\* C18: when every entry of the chain of the recipient, subject, body or send
\* button step has timed out, over the page and every eligible frame, the call has
\* raised a RuntimeError naming that step: no later field is filled, no attachment
\* is handled after a field's failure, and the send button is not clicked.  While
\* fewer entries have timed out the step is still resolving.
C18_ExhaustedChainRaises ==
    /\ fill.step \in ResolutionSteps =>
          fill.timeouts < ChainTotal(fill, StepNamed(fill.step))
    /\ fill.timeouts > 0 /\ fill.step \notin ResolutionSteps =>
          /\ fill.step = "raised"
          /\ fill.at \in ResolutionSteps \ {"subject"}
          /\ fill.error = StepNamed(fill.at)
          /\ fill.cls = "RuntimeError"
          /\ fill.timeouts = ChainTotal(fill, fill.error)
          /\ fill.filled = FilledBefore(fill.error)
          /\ fill.error # "send_button" => fill.att = <<>>
          /\ ~fill.activated
    /\ fill.step = "raised" /\ fill.error # "" => fill.timeouts > 0
    /\ fill.activated => fill.step = "done"

\* with one eligible frame, an attachment was attached and then every entry of the
\* send button's chain timed out on the page and in the frame
C18_Witness ==
    /\ fill.step = "raised"
    /\ fill.error = "send_button"
    /\ fill.frames = 1
    /\ fill.timeouts = 12
    /\ fill.att = <<"attached">>

\* the steps of _fill_and_send after the attachments
AfterAttachments == {"dismiss", "send_button", "send_click", "done"}

\* C19: a path whose file does not exist is skipped without touching the page, a
\* timeout of the attach button or of a menu entry never ends the call, the paths
\* are handled in list order, and once the last one is handled, attached or not,
\* the call goes on to the send button; only an error that is no timeout, raised
\* by the attach button or in the menuitem pass, ends the call at an attachment.
C19_AttachmentsSkipped ==
    /\ Len(fill.att) <= Len(fill.attachments)
    /\ \A k \in 1..Len(fill.att) : fill.att[k] = "missing" <=> ~fill.attachments[k]
    /\ fill.step \in {"attach_path", "attach", "menu"} => fill.k = Len(fill.att) + 1
    /\ fill.step \in {"attach", "menu"} =>
          fill.k <= Len(fill.attachments) /\ fill.attachments[fill.k]
    /\ fill.step = "raised" /\ fill.at \in {"attach", "menu"} =>
          /\ fill.cls # "PlaywrightTimeout"
          /\ fill.at = "menu" => fill.pass = 1
          /\ fill.attachments[fill.k]
    /\ fill.step = "raised" /\ fill.at = "attach_path" => FALSE
    /\ fill.step \in AfterAttachments \/ (fill.step = "raised" /\ fill.at \in AfterAttachments) =>
          Len(fill.att) = Len(fill.attachments)

\* a send whose first file was missing and whose second file found no file
\* chooser has clicked the send button
C19_Witness ==
    /\ fill.step = "done"
    /\ fill.activated
    /\ fill.attachments = <<FALSE, TRUE>>
    /\ fill.att = <<"missing", "failed">>

-----------------------------------------------------------------------------
(* Properties of the email resolution (manager.py, lines 282-290).         *)

\* the candidate carries an email that is not blank (line 283)
HasSuppliedEmail(c) == ~Falsy(c.email) /\ Strip(c.email[1]) # <<>>

\* the n-th operation left its candidate without an address
NoEmailEvent(n) ==
    \/ log[n].op = "find" /\ log[n].res = "none"
    \/ log[n].op = "normalize" /\ log[n].res = "empty"

\* the names of the candidates left without an address, in the order of the trace
NoEmailLog ==
    LET Names[n \in 0..Len(log)] ==
            IF n = 0 THEN <<>>
            ELSE IF NoEmailEvent(n) THEN Append(Names[n - 1], log[n].cand.name)
                 ELSE Names[n - 1]
    IN Names[Len(log)]

C21_Skipped ==
    /\ result.skipped_no_email = NoEmailLog
    /\ \A n \in 1..Len(log) :
          /\ log[n].op = "find" => ~HasSuppliedEmail(log[n].cand)
          /\ NoEmailEvent(n) =>
                /\ \A m \in 1..Len(log) :
                      (log[m].rnd = log[n].rnd /\ log[m].i = log[n].i) => m = n
                /\ log[n].i < Len(iters[log[n].rnd].batch) =>
                      \/ n < Len(log) /\ log[n + 1].rnd = log[n].rnd
                                      /\ log[n + 1].i = log[n].i + 1
                      \/ n = Len(log) /\ pc = "for" /\ round = log[n].rnd
                                      /\ idx = log[n].i + 1

\* C21: a candidate for which no address is resolved is appended to skipped_no_email,
\* no draft, confirmation, opening or send is made for it and the loop goes on with
\* the next candidate of the batch; the finder is never called for a candidate that
\* carries a non-blank email.
C21_NoEmailSkipped == []C21_Skipped

\* a candidate was left without an address by the finder and the next one, carrying
\* its own address, was resolved without the finder
C21_Witness ==
    \E n \in 1..(Len(log) - 1) :
        /\ NoEmailEvent(n) /\ log[n].op = "find"
        /\ log[n + 1].op = "normalize" /\ log[n + 1].res = "ok"
        /\ log[n + 1].i = log[n].i + 1
        /\ HasSuppliedEmail(log[n + 1].cand)
        /\ log[n].cand.name \in {result.skipped_no_email[k] : k \in 1..Len(result.skipped_no_email)}

-----------------------------------------------------------------------------
(* Properties of the deduplication of candidates.                          *)

\* the identity a candidate has by its domain: <<>> when the domain is empty
DomainKey(c) ==
    IF _normalize_domain(c.domain) # <<>> THEN <<"domain", _normalize_domain(c.domain)>>
    ELSE <<>>

\* the identity of a row of a list file: its domain, or its name when it has none
RowKey(c) ==
    IF DomainKey(c) # <<>> THEN DomainKey(c)
    ELSE IF NormalizedName(c.name) # <<>> THEN <<"name", NormalizedName(c.name)>>
    ELSE <<>>

\* inK and outK are the identities of the input and of the result, same[i, k] tells
\* that the k-th result is the i-th input: every identity of the input is kept once,
\* as its first occurrence, and the results are in the order of first occurrence
Collapsed(inK, outK, same) ==
    LET First(d) == CHOOSE i \in 1..Len(inK) :
                        inK[i] = d /\ \A j \in 1..(i - 1) : inK[j] # d
        Keyed == {k \in 1..Len(outK) : outK[k] # <<>>}
    IN /\ \A i \in 1..Len(inK) :
            inK[i] # <<>> =>
                \E k \in Keyed : /\ same[First(inK[i]), k]
                                 /\ \A l \in Keyed : outK[l] = inK[i] => l = k
       /\ \A k \in Keyed : \E i \in 1..Len(inK) : inK[i] = outK[k]
       /\ \A k, l \in Keyed : k < l => First(outK[k]) < First(outK[l])

\* the rows of a list file as parsed, a blank line giving a row without identity
RowsOf(lines) == [i \in 1..Len(lines) |-> ParseLine(lines[i])]

\* C22: the result of _discover_startups holds, for every normalized domain of the
\* agent's answer, exactly one candidate, the first of the answer with that domain,
\* and the kept candidates are in the order of their first occurrence; the same
\* holds of the rows of a list file in load_startups_from_list_file.
C22_FirstSeenKept ==
    call.done =>
        /\ call.fn = "_discover_startups" =>
              Collapsed([i \in 1..Len(call.arg) |-> DomainKey(call.arg[i])],
                        [k \in 1..Len(call.value) |-> DomainKey(call.value[k])],
                        [i \in 1..Len(call.arg), k \in 1..Len(call.value) |->
                            call.value[k] = call.arg[i]])
        /\ call.fn = "load_startups_from_list_file" =>
              LET rows == RowsOf(call.arg) IN
              Collapsed([i \in 1..Len(rows) |-> RowKey(rows[i])],
                        [k \in 1..Len(call.value) |-> RowKey(call.value[k])],
                        [i \in 1..Len(rows), k \in 1..Len(call.value) |->
                            /\ call.value[k].domain = rows[i].domain
                            /\ call.value[k].email = rows[i].email
                            /\ rows[i].name # <<>> => call.value[k].name = rows[i].name])

\* an answer of three candidates, the first and the last with two spellings of one
\* domain and different names, was reduced to the first two
C22_Witness ==
    /\ call.fn = "_discover_startups" /\ call.done
    /\ Len(call.arg) = 3 /\ Len(call.value) = 2
    /\ call.arg[1].domain # call.arg[3].domain
    /\ call.arg[1].name # call.arg[3].name
    /\ DomainKey(call.arg[1]) = DomainKey(call.arg[3])
    /\ DomainKey(call.arg[2]) \notin {<<>>, DomainKey(call.arg[1])}
    /\ call.value = <<call.arg[1], call.arg[2]>>

\* the positions of the sequence that hold a candidate without a domain whose
\* normalized name is name_n
Nameless(items, name_n) ==
    {i \in 1..Len(items) : /\ _normalize_domain(items[i].domain) = <<>>
                           /\ NormalizedName(items[i].name) = name_n}

\* C23 as stated: of the discovered candidates without a domain, those of one
\* normalized name collapse to exactly one candidate of the discovery result, and
\* those of different normalized names are all kept.
C23_NamelessCollapse ==
    (call.fn = "_discover_startups" /\ call.done) =>
        \A i \in 1..Len(call.arg) :
            _normalize_domain(call.arg[i].domain) = <<>> =>
                Cardinality(Nameless(call.value, NormalizedName(call.arg[i].name))) = 1

-----------------------------------------------------------------------------
(* Properties of the contact-history key.                                  *)

\* the candidate of raw_list was counted as already contacted in this iteration
CountedContacted(c) ==
    \A j \in 1..Len(iters[round].to_process) : iters[round].to_process[j] # c

\* a send to a candidate without a domain and of the given name has succeeded
SentToNameless(name) ==
    \E n \in 1..Len(log) :
        /\ log[n].op = "send" /\ log[n].res = "true"
        /\ _normalize_domain(log[n].cand.domain) = <<>>
        /\ log[n].cand.name = name

\* C24 as stated: a candidate without a domain is looked up and recorded under its
\* name, so it counts as already contacted only after a successful send to a
\* candidate without a domain of the same name (no store a run starts from holds a
\* name).
C24_NameKeyWhenNoDomain ==
    InIteration =>
        \A i \in 1..Len(raw_list) :
            (_normalize_domain(raw_list[i].domain) = <<>> /\ CountedContacted(raw_list[i]))
                => SentToNameless(raw_list[i].name)

-----------------------------------------------------------------------------
(* Properties of the command line.                                         *)

\* the entries of one section of the printed report, none when nothing was printed
PrintedEntries(section) == IF report.printed THEN report[section] ELSE <<>>

\* C25 as stated: however run ends, once the command has ended every sent,
\* failed-send, skipped-no-email and skipped-already-contacted entry recorded during
\* the run has been printed in the final report.
C25_OutcomesSurfaced ==
    pc = "exited" =>
        \A section \in {"sent", "failed_send", "skipped_no_email", "skipped_already_emailed"} :
            PrintedEntries(section) = result[section]

-----------------------------------------------------------------------------
(* Properties of the dedup store under concurrent processes.               *)

\* the position in the trace of the last step op of process p, 0 for none
LastAt(op, p) ==
    LET L[n \in 0..Len(log)] ==
            IF n = 0 THEN 0
            ELSE IF log[n].op = op /\ log[n].i = p THEN n ELSE L[n - 1]
    IN L[Len(log)]

\* the last record operation of p is complete
Recorded(p) == 0 < LastAt("read", p) /\ LastAt("read", p) < LastAt("dump", p)

\* the last record operations of p and q are complete, each read the store before
\* either began to write, and p wrote first
BothReadFirst(p, q) ==
    /\ Recorded(p) /\ Recorded(q)
    /\ LastAt("read", p) < LastAt("open", q)
    /\ LastAt("read", q) < LastAt("open", p)
    /\ LastAt("dump", p) < LastAt("dump", q)

\* the key and the entry written by the last record operation of p
KeyOf(p) == _normalize_domain(procs[p].domain)
EntryOf(p) == [k |-> KeyOf(p), v |-> procs[p].now]

\* the mapping a load of the store gives now
Stored == _load_emailed_companies(file).value

\* the trace shows a write in progress
Writing == \E p \in 1..Len(procs) : procs[p].at = "open"

C26_Single ==
    (Len(procs) = 1 /\ ~Writing) =>
        \A n \in 1..Len(log) :
            log[n].op = "dump" => DictHas(Stored, _normalize_domain(log[n].cand.domain))

C26_Race ==
    \A p, q \in 1..Len(procs) :
        (p # q /\ BothReadFirst(p, q)) =>
            /\ \A j \in 1..Len(Stored) : Stored[j] # EntryOf(p)
            /\ (KeyOf(p) # KeyOf(q)
                 /\ ~DictHas(_load_emailed_companies(procs[q].seen).value, KeyOf(p)))
                => ~DictHas(Stored, KeyOf(p))

\* C26: when two processes record and both read the store before either writes,
\* the entry of the one that writes first is not in the store after the second
\* write, and its key is missing whenever the two keys differ and the store did not
\* hold it before; with a single process the key of every completed record is in
\* the store.
C26_LostUpdate == C26_Single /\ C26_Race

\* two processes have read an absent store, then written two different keys one
\* after the other: the store holds the second key only
C26_Witness ==
    /\ Len(procs) = 2
    /\ \E p, q \in 1..2 :
          /\ p # q /\ BothReadFirst(p, q)
          /\ KeyOf(p) # KeyOf(q)
          /\ procs[p].seen.kind = "absent" /\ procs[q].seen.kind = "absent"
          /\ file.kind = "dict"
          /\ DictKeys(file.data) = {KeyOf(q)}

-----------------------------------------------------------------------------
(* Properties of the email normalization.                                  *)

\* the string neither begins nor ends with whitespace or with one of . , ; : " '
CleanEnds(s) ==
    s # <<>> => /\ ~IsSpace(s[1]) /\ ~IsPunct(s[1])
                /\ ~IsSpace(s[Len(s)]) /\ ~IsPunct(s[Len(s)])

\* C27 as stated: the result of normalize_email neither begins nor ends with
\* whitespace or with a period, comma, semicolon, colon or quote, and normalizing
\* the result again changes nothing.
C27_CleanAndIdempotent ==
    (call.fn = "normalize_email" /\ call.done) =>
        /\ CleanEnds(call.value)
        /\ normalize_email(call.value) = call.value

-----------------------------------------------------------------------------
(* Properties of the opening of the compose surface.                       *)

\* every selector of _click_new_mail has timed out
NoneResolved ==
    /\ call.fn = "_click_new_mail"
    /\ call.timeouts = Cardinality(NewMailSelectors)

\* C28 as stated: when no selector resolves a visible element the call raises the
\* 'Could not find New mail button' error and clicks nothing, and a click is made
\* only on the element whose wait for visibility succeeded.
C28_ClickOnlyResolved ==
    call.fn = "_click_new_mail" =>
        /\ call.clicked # 0 => call.clicked = call.waited
        /\ (NoneResolved /\ call.at # "check") =>
              /\ call.at = "raised"
              /\ call.error = "Could not find 'New mail' button"
              /\ call.clicked = 0

-----------------------------------------------------------------------------
(* Properties of the field resolution.                                     *)

\* the (root, selector) pairs of a step in scanning order: the roots in the order
\* of _compose_roots, the selectors of the list within each root
ScanOrder(f, step) ==
    [n \in 1..(NumRoots(f) * ChainLength(step)) |->
        <<((n - 1) \div ChainLength(step)) + 1, ((n - 1) % ChainLength(step)) + 1>>]

\* the pairs tried are the first pairs of the scanning order
TriedInOrder(step) ==
    /\ Len(fill.tried) <= Len(ScanOrder(fill, step))
    /\ fill.tried = SubSeq(ScanOrder(fill, step), 1, Len(fill.tried))

\* C29: the recipient field and the body field are the element of the first pair
\* (root, selector) that resolves, the pairs being tried root by root, the page
\* first, and selector by selector within a root; no pair is tried after the one
\* that resolved, and the lookup gives none, which raises the step's error, only
\* after every pair has timed out.
C29_FirstPairWins ==
    /\ \A step \in {"to", "body"} :
          /\ fill.step = step =>
                /\ TriedInOrder(step)
                /\ Len(fill.tried) < Len(ScanOrder(fill, step))
                /\ <<fill.root, fill.sel>> = ScanOrder(fill, step)[Len(fill.tried) + 1]
          /\ fill.step = ActionOf(step) =>
                /\ TriedInOrder(step)
                /\ fill.tried # <<>>
                /\ fill.tried[Len(fill.tried)] = <<fill.root, fill.sel>>
          /\ (fill.step = "raised" /\ fill.at = step /\ fill.error = step) =>
                fill.tried = ScanOrder(fill, step)

\* the body field was resolved by the second selector of the embedded frame, after
\* every selector of the page and the frame's first one had timed out
C29_Witness ==
    /\ fill.step = "body_fill"
    /\ fill.frames = 1
    /\ <<fill.root, fill.sel>> = <<2, 2>>
    /\ Len(fill.tried) = ChainLength("body") + 2

-----------------------------------------------------------------------------
(* Properties of a failed open of the send session.                        *)

\* a step inside the try block of open_outlook_send_session has failed
OpenFailed == pw.call \in {"open_except", "none"} /\ pw.error # ""

\* C30: when a step of open_outlook_send_session fails, be it the launch, the new
\* context, the new page, the navigation, the wait for the login or the snapshot
\* write, a close is called on each of the context, the browser and the runtime
\* acquired by then, the error that comes out is the one of the failed step, no
\* session is returned or bound, and run's finally block makes no close call.
C30_FailedOpenReleases ==
    OpenFailed =>
        /\ send_session = 0
        /\ sessions = <<>>
        /\ pw.closes = 0
        /\ \A n \in 1..Len(pw.ops) : pw.ops[n] \notin {"opened", "close"}
        /\ pw.call = "open_except" =>
              /\ pc = "open"
              /\ pw.runtime = "live"
              /\ pw.browser = (IF pw.at = "launch" THEN "none" ELSE "live")
              /\ pw.context = (IF pw.at \in {"launch", "new_context"} THEN "none" ELSE "live")
        /\ pw.call = "none" =>
              /\ pc \in {"finally", "raised"}
              /\ exc = pw.error
              /\ CloseCalled(pw.runtime)
              /\ pw.browser # "live"
              /\ pw.context # "live"

\* the snapshot write of an open failed on the mailbox: a close was called on the
\* context, the browser and the runtime, and the error has left run
C30_Witness ==
    /\ OpenFailed
    /\ pw.call = "none"
    /\ pc = "raised"
    /\ exc = "PlaywrightError"
    /\ pw.surface = "mail"
    /\ \A n \in 1..Len(pw.ops) : pw.ops[n] # "wait"
    /\ CloseCalled(pw.context) /\ CloseCalled(pw.browser) /\ CloseCalled(pw.runtime)
    /\ pw.closes = 0

-----------------------------------------------------------------------------
(* The up-front session check: ensure_outlook_session step by step, inside *)
(* lines 249-252 of run, and the head of the first iteration after it.     *)

\* the statements of the async with block of ensure_outlook_session, in order
EnsureSteps == <<"launch", "new_context", "new_page", "goto", "login_wait",
                 "storage_state", "context_close", "browser_close">>

\* run is at line 239 and no browser has been opened
InitEnsure ==
    /\ pc = "start"
    /\ ApartAtRest
    /\ cfg \in Configs
    /\ file \in RunFiles
    /\ clock = 0
    /\ emailed = EmptyDict
    /\ raw_list = <<>>
    /\ batch = <<>>
    /\ idx = 0
    /\ email = None
    /\ sent_so_far = 0
    /\ send_session = 0
    /\ sessions = <<>>
    /\ result = EmptyResult
    /\ exc = ""
    /\ round = 0
    /\ log = <<>>
    /\ iters = <<>>
    /\ loaded = NotLoaded
    /\ page = AllOk
    /\ snd = Idle
    /\ pw \in {SessionAtRest(stored) : stored \in BOOLEAN}
    /\ fill = NoFill

\* variables the steps inside ensure_outlook_session leave alone
ensureFrame == <<pc, exc, log, cfg, file, clock, emailed, raw_list, batch, idx, email,
                 sent_so_far, send_session, sessions, result, round, iters, loaded,
                 page, snd, fill, apart>>

\* manager.py line 249: in headless mode run makes no session check
EnsureSkipped ==
    /\ pc = "start"
    /\ cfg.headless
    /\ pc' = "loop"
    /\ UNCHANGED <<exc, log, cfg, file, clock, emailed, raw_list, batch, idx, email,
                   sent_so_far, send_session, sessions, result, round, iters, offRun>>

\* manager.py line 250 and send.py lines 293-294: the call, and the automation
\* runtime entered inside the try block
EnsureCall ==
    /\ pc = "start"
    /\ ~cfg.headless
    /\ pw.call = "none"
    /\ pw.closes = 0
    /\ \/ pw' = [pw EXCEPT !.call = "ensure", !.at = 1, !.runtime = "live"]
       \/ pw' = [pw EXCEPT !.call = "ensure_out", !.error = "PlaywrightError"]
    /\ UNCHANGED ensureFrame

\* send.py lines 295-305 and _ensure_logged_in lines 34-51: the next statement of
\* the block succeeds; the check is made with headless=False (manager.py line 250)
EnsureStepOk ==
    /\ pw.call = "ensure"
    /\ pw.at <= Len(EnsureSteps)
    /\ LET step == EnsureSteps[pw.at] IN
       /\ step = "goto" => ~login_fails_at_once(FALSE)
       /\ \E surface \in {"mail", "login"} :
            /\ step # "goto" => surface = "mail"
            /\ pw' = [pw EXCEPT
                        !.at = IF step = "goto" /\ surface = "mail"
                               THEN pw.at + 2 ELSE pw.at + 1,
                        !.surface = IF step \in {"goto", "login_wait"}
                                    THEN surface ELSE pw.surface,
                        !.browser = IF step = "launch" THEN "live"
                                    ELSE IF step = "browser_close" THEN "closed"
                                    ELSE pw.browser,
                        !.context = IF step = "new_context" THEN "live"
                                    ELSE IF step = "context_close" THEN "closed"
                                    ELSE pw.context,
                        !.stored = IF step \in {"login_wait", "storage_state"}
                                   THEN TRUE ELSE pw.stored,
                        !.ops = IF step = "new_context" /\ pw.stored
                                THEN Append(pw.ops, "read")
                                ELSE IF step = "login_wait"
                                THEN pw.ops \o <<"wait", "write">>
                                ELSE IF step = "storage_state"
                                THEN Append(pw.ops, "write")
                                ELSE pw.ops]
    /\ UNCHANGED ensureFrame

\* the next statement of the block raises: the launch, the navigation, the bounded
\* wait for the login, the snapshot or a close; the error leaves the with block
EnsureStepRaises ==
    /\ pw.call = "ensure"
    /\ pw.at <= Len(EnsureSteps)
    /\ \E cls \in AutomationErrors :
          /\ cls = "PlaywrightTimeout" => EnsureSteps[pw.at] \in {"goto", "login_wait"}
          /\ pw' = [pw EXCEPT !.call = "ensure_exit", !.error = cls]
    /\ UNCHANGED ensureFrame

\* line 305 done: the block is left without an error
EnsureBlockDone ==
    /\ pw.call = "ensure"
    /\ pw.at = Len(EnsureSteps) + 1
    /\ pw' = [pw EXCEPT !.call = "ensure_exit"]
    /\ UNCHANGED ensureFrame

\* what the exit of the automation runtime leaves of a browser or context it
\* launched: the runtime's process is stopped and what it owns ends with it
StoppedWith(state) == IF state = "live" THEN "closed" ELSE state

\* line 294, the end of the async with block, on both ways out of it: the runtime
\* is stopped; the exit itself may raise, still inside the try block
EnsureExit ==
    /\ pw.call = "ensure_exit"
    /\ \/ pw' = [pw EXCEPT !.call = "ensure_out", !.runtime = "closed",
                           !.browser = StoppedWith(pw.browser),
                           !.context = StoppedWith(pw.context)]
       \/ pw' = [pw EXCEPT !.call = "ensure_out", !.runtime = "close_failed",
                           !.browser = StoppedWith(pw.browser),
                           !.context = StoppedWith(pw.context),
                           !.error = "PlaywrightError"]
    /\ UNCHANGED ensureFrame

\* mutant of EnsureCaught: only timeouts are turned into False
EnsureCaughtTimeoutOnly(cls) == cls = "PlaywrightTimeout"

\* send.py line 307: except Exception
EnsureCaught(cls) == cls \in AutomationErrors \cup {"RuntimeError", "OSError"}

\* send.py lines 306-309 and manager.py lines 250-252: True, or False for a caught
\* error, on which run prints its warning and goes on to the loop
EnsureReturn ==
    /\ pc = "start"
    /\ pw.call = "ensure_out"
    /\ pw' = [pw EXCEPT !.call = "none", !.at = "", !.closes = 1]
    /\ IF pw.error = ""
       THEN /\ log' = Append(log, Event("ensure", NoCand, 0, 0, "true"))
            /\ pc' = "loop"
            /\ exc' = exc
       ELSE IF EnsureCaught(pw.error)
       THEN /\ log' = log \o <<Event("ensure", NoCand, 0, 0, "false"),
                              Event("warning", NoCand, 0, 0, "printed")>>
            /\ pc' = "loop"
            /\ exc' = exc
       ELSE /\ log' = Append(log, Event("ensure", NoCand, 0, 0, "raised"))
            /\ pc' = "raised"
            /\ exc' = pw.error
    /\ UNCHANGED <<cfg, file, clock, emailed, raw_list, batch, idx, email, sent_so_far,
                   send_session, sessions, result, round, iters, loaded, page, snd,
                   fill, apart>>

NextEnsure ==
    \/ EnsureSkipped
    \/ EnsureCall
    \/ EnsureStepOk
    \/ EnsureStepRaises
    \/ EnsureBlockDone
    \/ EnsureExit
    \/ EnsureReturn
    \/ LoopLoadRaises
    \/ LoopDiscoverRaises
    \/ LoopSupplied
    \/ LoopDiscover

SpecEnsure == InitEnsure /\ [][NextEnsure]_vars

\* the check has failed: an error is on its way out of ensure_outlook_session
EnsureFailed == pw.call = "ensure_out" /\ pw.error # ""

\* nothing the check opened is still running
EnsureReleased == "live" \notin {pw.runtime, pw.browser, pw.context}

-----------------------------------------------------------------------------
(* The frame of a record operation.                                        *)

\* this step is a record operation that completed
RecordStep ==
    /\ Len(log') = Len(log) + 1
    /\ log'[Len(log')].op = "record"
    /\ log'[Len(log')].res = "ok"

\* the entries of mapping d under keys other than key
Others(d, key) == {d[i] : i \in {j \in 1..Len(d) : d[j].k # key}}

\* C32: a completed record operation for one key leaves every other entry of the
\* store as it was, same keys and same timestamps, whatever state the store file
\* was in before the operation.
C32_OtherEntriesKept ==
    [][RecordStep =>
          LET key == _normalize_domain(log'[Len(log')].cand.domain) IN
          Others(file'.data, key) = Others(file.data, key)]_vars
-----------------------------------------------------------------------------
(* The control flow of run alone: what the while loop of lines 254-339     *)
(* reads to decide whether it goes round again.  The aggregate is only     *)
(* written by run, so these steps leave it, and the trace, as they are.    *)

\* variables the loop's decisions do not depend on
liveFrame == <<cfg, email, send_session, sessions, result, round, log, iters, offRun>>

\* lines 239-252: the checks before the loop have ended
LiveStart ==
    /\ pc = "start"
    /\ pc' = "loop"
    /\ UNCHANGED <<file, clock, emailed, raw_list, batch, idx, sent_so_far, exc, liveFrame>>

\* lines 255-259 when the load or the discovery call raises
LiveLoopRaises ==
    /\ pc = "loop"
    /\ \/ /\ _load_emailed_companies(file).raised # ""
          /\ exc' = _load_emailed_companies(file).raised
       \/ /\ _load_emailed_companies(file).raised = ""
          /\ cfg.startups = None
          /\ exc' = "ProviderError"
    /\ pc' = "raised"
    /\ UNCHANGED <<file, clock, emailed, raw_list, batch, idx, sent_so_far, liveFrame>>

\* lines 255-280: load, list or discovery, partition, truncate, break when empty
LiveLoop ==
    /\ pc = "loop"
    /\ _load_emailed_companies(file).raised = ""
    /\ \E raw \in IF cfg.startups # None THEN {cfg.startups[1]}
                  ELSE {_discover_startups(out) : out \in DiscoveryOutputs} :
          LET mapping == _load_emailed_companies(file).value
              b == batch_of(to_process_of(raw, mapping))
          IN /\ emailed' = mapping
             /\ raw_list' = raw
             /\ batch' = b
             /\ IF b = <<>>
                THEN pc' = "returned" /\ idx' = idx
                ELSE pc' = "for" /\ idx' = 1
    /\ UNCHANGED <<file, clock, sent_so_far, exc, liveFrame>>

\* lines 283-286: the candidate carries a non-blank email
Supplied(s) == ~Falsy(s.email) /\ Strip(s.email[1]) # <<>>

\* lines 283-289: the candidate can be left without an address, and with one
CanLackEmail(s) == IF Supplied(s) THEN normalize_email(s.email[1]) = <<>> ELSE TRUE
CanHaveEmail(s) == IF Supplied(s) THEN normalize_email(s.email[1]) # <<>> ELSE TRUE

\* lines 282-331 for one candidate of the batch, every call returning: skipped for
\* want of an address, drafted and declined, send failed, or sent and recorded
LiveCandidate ==
    /\ pc = "for"
    /\ idx <= Len(batch)
    /\ \E outcome \in {"no_email", "declined", "failed", "sent"} :
          /\ outcome = "no_email" => CanLackEmail(startup)
          /\ outcome # "no_email" => CanHaveEmail(startup)
          /\ outcome = "declined" => cfg.confirm_before_send
          /\ outcome \in {"failed", "sent"} =>
                ~cfg.confirm_before_send \/ cfg.has_callback
          /\ LET saved == _save_emailed_company(file, startup.domain, clock + 1) IN
             IF outcome = "sent"
             THEN IF saved.raised # ""
                  THEN /\ exc' = saved.raised
                       /\ pc' = "finally"
                       /\ UNCHANGED <<file, clock, idx, sent_so_far>>
                  ELSE /\ file' = saved.file
                       /\ clock' = clock + 1
                       /\ sent_so_far' = sent_so_far + 1
                       /\ idx' = idx + 1
                       /\ UNCHANGED <<pc, exc>>
             ELSE /\ idx' = idx + 1
                  /\ UNCHANGED <<pc, exc, file, clock, sent_so_far>>
    /\ UNCHANGED <<emailed, raw_list, batch, liveFrame>>

\* lines 286, 292, 310, 314, 317: a call made for the candidate raises
LiveCandidateRaises ==
    /\ pc = "for"
    /\ idx <= Len(batch)
    /\ exc' \in {"ProviderError", "CallbackError", "RuntimeError"}
    /\ exc' = "CallbackError" =>
          cfg.confirm_before_send /\ cfg.has_callback /\ CanHaveEmail(startup)
    /\ exc' = "RuntimeError" =>
          (~cfg.confirm_before_send \/ cfg.has_callback) /\ CanHaveEmail(startup)
    /\ pc' = "finally"
    /\ UNCHANGED <<file, clock, emailed, raw_list, batch, idx, sent_so_far, liveFrame>>

\* lines 332-334: the close swallows its errors; the exception (if any) goes on
LiveFinally ==
    /\ pc = "finally"
    /\ pc' = IF exc # "" THEN "raised" ELSE "after"
    /\ UNCHANGED <<file, clock, emailed, raw_list, batch, idx, sent_so_far, exc, liveFrame>>

NextLive ==
    \/ LiveStart
    \/ LiveLoopRaises
    \/ LiveLoop
    \/ LiveCandidate
    \/ LiveCandidateRaises
    \/ ForDone
    \/ LiveFinally
    \/ After

\* every call run makes returns or raises, so run always takes its next step
SpecLive == InitRun /\ [][NextLive]_vars /\ WF_vars(NextLive)

\* C33: run eventually returns or raises, for every cap and every candidate source,
\* also when no candidate of any round is sent.
C33_RunEnds == <>(pc \in {"returned", "raised"})
-----------------------------------------------------------------------------
(* Properties of one invocation of run: sends per domain, the cap, the     *)
(* aggregate.                                                              *)

\* the positions in the trace of the sends that succeeded
SentAt == {n \in 1..Len(log) : log[n].op = "send" /\ log[n].res = "true"}

\* C34: within one invocation no normalized domain receives two successful sends,
\* whether the candidates come from discovery rounds or from a caller's list, a list
\* that names one domain twice included.
C34_OneSendPerDomain ==
    \A m, n \in SentAt :
        m < n => _normalize_domain(log[m].cand.domain) # _normalize_domain(log[n].cand.domain)

\* the operations run makes for a candidate of a batch
CandidateWork == {"find", "normalize", "draft", "confirm", "open", "send"}

\* C35: with a cap N >= 0 the recipients recorded as sent never number more than
\* N.  With N = 0 run makes no find-email, draft, confirm or send, begins no second
\* iteration, and has returned as soon as the first iteration's batch is computed.
C35_CapNeverExceeded ==
    cfg.max_startups # None /\ cfg.max_startups[1] >= 0 =>
        /\ Len(result.sent) <= cfg.max_startups[1]
        /\ cfg.max_startups[1] = 0 =>
              /\ round <= 1
              /\ \A n \in 1..Len(log) : log[n].op \notin CandidateWork
              /\ iters # <<>> => pc = "returned" /\ batch = <<>>

\* C35 witness: a run capped at 2 sent one message in its first round, was left
\* two candidates in the second of which the quota admitted one, and sent it
C35_Witness ==
    /\ cfg.max_startups = Some(2)
    /\ pc = "returned"
    /\ Len(iters) = 2
    /\ Len(iters[2].to_process) = 2
    /\ Len(iters[2].batch) = 1
    /\ Len(result.sent) = 2

\* C36: with a cap below zero no candidate is processed: the batch is empty, nothing
\* is found, drafted or sent, and the sent list stays empty.
C36_NegativeCapIdle ==
    cfg.max_startups # None /\ cfg.max_startups[1] < 0 =>
        /\ batch = <<>>
        /\ \A n \in 1..Len(log) : log[n].op \notin CandidateWork
        /\ result.sent = <<>>

\* the recipients of the drafts of the aggregate
DraftRecipients == {result.drafts[i].to_email : i \in 1..Len(result.drafts)}

\* C37: when run has returned, the aggregate is consistent: one draft per candidate
\* with an email; every candidate of a batch is counted as with an email or as
\* skipped for want of one; the sends, failed or not, are no more than the drafts;
\* and every address sent to, or failed to, is the recipient of a draft.
C37_AggregateConsistent ==
    pc = "returned" =>
        /\ Len(result.with_email) = Len(result.drafts)
        /\ Len(result.skipped_no_email) + Len(result.with_email) = Len(result.discovered)
        /\ Len(result.sent) + Len(result.failed_send) <= Len(result.drafts)
        /\ \A i \in 1..Len(result.sent) : result.sent[i] \in DraftRecipients
        /\ \A i \in 1..Len(result.failed_send) : result.failed_send[i] \in DraftRecipients

\* C37 witness: a capped run returned after two rounds of two candidates, with a
\* candidate skipped for want of an email, a failed send and two sends
C37_Witness ==
    /\ pc = "returned"
    /\ round = 2
    /\ Len(result.discovered) = 4
    /\ result.skipped_no_email # <<>>
    /\ result.failed_send # <<>>
    /\ Len(result.sent) = 2

\* the names of the candidates whose recipient was recorded as sent
SentNames ==
    {result.drafts[i].startup.name :
        i \in {j \in 1..Len(result.drafts) : result.drafts[j].to_email \in
                  {result.sent[k] : k \in 1..Len(result.sent)}}}

\* C38: no candidate is reported both as sent and as skipped because already
\* contacted in one result: a candidate whose recipient was recorded as sent is not
\* recorded in skipped_already_emailed by a later iteration.
C38_SentNotSkipped ==
    \A i \in 1..Len(result.skipped_already_emailed) :
        result.skipped_already_emailed[i] \notin SentNames

====
